---- MODULE Spec2Model ----
(***************************************************************************)
(* A model of the V3D NIR I/O lowering pass,                               *)
(* src/broadcom/compiler/v3d_nir_lower_io.c.                               *)
(*                                                                         *)
(* The pass is modelled as it runs on one straight-line function body:     *)
(* the layout calculator, the geometry prologue, one step per instruction  *)
(* of the walk and the trailing code appended after the last block.  The   *)
(* lowered program is executed along with the walk: the three geometry     *)
(* accumulators hold the values they have at run time at the point of the  *)
(* instruction being lowered, so every physical write carries the VPM      *)
(* address it has when the lowered program runs.                           *)
(*                                                                         *)
(* Spec leaves the function body open and draws each instruction when the  *)
(* walk reaches it.  SpecGiven hands the pass a body as a list, keeps the  *)
(* list from the walk's position onward, and runs both the build that      *)
(* keeps assert() and the one that defines NDEBUG.                         *)
(***************************************************************************)
EXTENDS Integers, Sequences, FiniteSets

VARIABLES
    key,        \* the compile keys and the shader the caller supplies
    pc,         \* position in v3d_nir_lower_io
    n,          \* number of original instructions the walk has dispatched
    st,         \* struct v3d_nir_lower_io_state
    gsv,        \* run-time values of the three geometry local variables
    vpm_output_size,   \* c->vpm_output_size
    ins,        \* the instruction dispatched by the last step, as it was
    cur,        \* what the last step left in its place
    out,        \* the VPM writes the last step inserted, in order
    hist,       \* history: per-vertex and per-run bookkeeping for the checks
    build,      \* whether the build keeps assert() or defines NDEBUG
    ahead       \* the known instructions from the walk's position onward

vars ==
    <<key, build, ahead, pc, n, st, gsv, vpm_output_size, ins, cur, out, hist>>

----------------------------------------------------------------------------
(* Bounds of the model *)

\* Longest instruction stream walked when the instructions are drawn as the
\* walk reaches them.
MaxInstrs == 3

\* Longest function body handed to the pass as a list.
MaxGivenLen == 3

\* Largest geometry-shader vertices_out.
MaxVerticesOut == 2

\* Length of the longest used-outputs table of the wide geometry keys: with
\* the four fixed-function slots it gives a vertex_data_size of 256.
WideOutputs == 252

----------------------------------------------------------------------------
(* 32-bit arithmetic *)
(* A 32-bit word is kept as its two 16-bit halves, so that every operation *)
(* on it stays exact.  VPM offsets and sizes, which the bounds of the      *)
(* model keep far below 2^31, are plain integers.                          *)

Pow2(k) == 2 ^ k

Half == Pow2(16)

W(hi, lo) == [hi |-> hi, lo |-> lo]

\* The word holding the two's complement of an integer in -2^31 .. 2^31-1.
WordOf(x) == W((x \div Half) % Half, x % Half)

\* The word read as a signed 32-bit integer.
Signed(w) ==
    IF w.hi >= Pow2(15) THEN (w.hi - Half) * Half + w.lo
    ELSE w.hi * Half + w.lo

RECURSIVE BitAndN(_, _, _)
BitAndN(a, b, k) ==
    IF k = 0 THEN 0
    ELSE (IF a % 2 = 1 /\ b % 2 = 1 THEN 1 ELSE 0)
         + 2 * BitAndN(a \div 2, b \div 2, k - 1)

RECURSIVE BitOrN(_, _, _)
BitOrN(a, b, k) ==
    IF k = 0 THEN 0
    ELSE (IF a % 2 = 1 \/ b % 2 = 1 THEN 1 ELSE 0)
         + 2 * BitOrN(a \div 2, b \div 2, k - 1)

\* nir_iand, nir_ior, nir_ishl on 32-bit words
iand(a, b) == W(BitAndN(a.hi, b.hi, 16), BitAndN(a.lo, b.lo, 16))
ior(a, b) == W(BitOrN(a.hi, b.hi, 16), BitOrN(a.lo, b.lo, 16))

ShlBelow16(a, k) ==
    W((a.hi * Pow2(k) + (a.lo * Pow2(k)) \div Half) % Half,
      (a.lo * Pow2(k)) % Half)

ishl(a, k) ==
    IF k >= 16 THEN ShlBelow16(W(a.lo, 0), k - 16) ELSE ShlBelow16(a, k)

\* bits [hi:lo] of a word, for a field that lies within one half
Bits(w, hi, lo) ==
    IF lo >= 16 THEN (w.hi \div Pow2(lo - 16)) % Pow2(hi - lo + 1)
    ELSE (w.lo \div Pow2(lo)) % Pow2(hi - lo + 1)

\* MAX2
MAX2(a, b) == IF a > b THEN a ELSE b

----------------------------------------------------------------------------
(* What the caller supplies: stage, environment, per-stage key *)

Stages == {"VERTEX", "GEOMETRY", "FRAGMENT", "COMPUTE"}

Environments == {"OPENGL", "VULKAN"}

\* An entry of used_outputs: v3d_slot_get_slot, v3d_slot_get_component.
Slot(location, component) == [slot |-> location, component |-> component]

\* The used-outputs tables the model draws from, in the caller's order.
UsedOutputTables ==
    { << >>,
      << Slot("VAR0", 1), Slot("VAR0", 0), Slot("VAR0", 1) >>,
      << Slot("POS", 0), Slot("VAR1", 1) >>,
      << Slot("VAR0", 0), Slot("VAR0", 1), Slot("VAR0", 2), Slot("VAR0", 3),
         Slot("VAR1", 0) >> }

\* va_swap_rb_mask, as the set of attribute locations whose bit is set.
SwapMasks == { {}, {"ATTR0"}, {"ATTR1"} }

\* point_sprite_mask, as the set of texture-coordinate slots whose bit is set.
SpriteMasks == { {}, {"TEX0"} }

\* c->s, the function body before the pass: a list of instructions given up
\* front, or a body left open, whose instructions are drawn one by one as
\* the walk reaches them.
Given(body) == [given |-> TRUE, body |-> body]
Undrawn == [given |-> FALSE, body |-> << >>]

Key(stage, env, last, coord, psiz, T, vout, swap, sprite, points, upper) ==
    [ stage |-> stage,
      environment |-> env,
      is_last_geometry_stage |-> last,
      is_coord |-> coord,
      per_vertex_point_size |-> psiz,
      used_outputs |-> T,
      vertices_out |-> vout,
      va_swap_rb_mask |-> swap,
      point_sprite_mask |-> sprite,
      is_points |-> points,
      point_coord_upper_left |-> upper,
      shader |-> Undrawn ]

\* Vertex keys: every layout with every table, and every environment and
\* swizzle mask with one layout.
VertexKeys ==
    { Key("VERTEX", "OPENGL", l, c, p, T, 0, {}, {}, FALSE, FALSE) :
        l \in BOOLEAN, c \in BOOLEAN, p \in BOOLEAN, T \in UsedOutputTables }
    \cup
    { Key("VERTEX", e, FALSE, FALSE, FALSE, << >>, 0, m, {}, FALSE, FALSE) :
        e \in Environments, m \in SwapMasks }

\* Geometry keys: every layout with every table and vertex count, and the
\* other environment with one layout.
GeometryKeys ==
    { Key("GEOMETRY", "OPENGL", TRUE, c, p, T, v, {}, {}, FALSE, FALSE) :
        c \in BOOLEAN, p \in BOOLEAN, T \in UsedOutputTables,
        v \in 1..MaxVerticesOut }
    \cup
    { Key("GEOMETRY", "VULKAN", TRUE, FALSE, FALSE, << >>, 1, {}, {}, FALSE,
          FALSE) }

\* The locations of a wide table, four components of each in turn.
WideLocations ==
    <<
       "VAR0", "VAR1", "VAR2", "VAR3", "VAR4", "VAR5", "VAR6", "VAR7",
       "VAR8", "VAR9", "VAR10", "VAR11", "VAR12", "VAR13", "VAR14",
       "VAR15", "VAR16", "VAR17", "VAR18", "VAR19", "VAR20", "VAR21",
       "VAR22", "VAR23", "VAR24", "VAR25", "VAR26", "VAR27", "VAR28",
       "VAR29", "VAR30", "VAR31", "VAR32", "VAR33", "VAR34", "VAR35",
       "VAR36", "VAR37", "VAR38", "VAR39", "VAR40", "VAR41", "VAR42",
       "VAR43", "VAR44", "VAR45", "VAR46", "VAR47", "VAR48", "VAR49",
       "VAR50", "VAR51", "VAR52", "VAR53", "VAR54", "VAR55", "VAR56",
       "VAR57", "VAR58", "VAR59", "VAR60", "VAR61", "VAR62" >>

WideTable(len) ==
    [i \in 1..len |->
        Slot(WideLocations[(((i - 1) \div 4) % Len(WideLocations)) + 1],
             (i - 1) % 4)]

FragmentKeys ==
    { Key("FRAGMENT", e, FALSE, FALSE, FALSE, << >>, 0, {}, m, p, u) :
        e \in Environments, m \in SpriteMasks, p \in BOOLEAN, u \in BOOLEAN }

ComputeKeys ==
    { Key("COMPUTE", e, FALSE, FALSE, FALSE, << >>, 0, {}, {}, FALSE, FALSE) :
        e \in Environments }

Keys == VertexKeys \cup GeometryKeys \cup FragmentKeys \cup ComputeKeys

num_used_outputs == Len(key.used_outputs)

----------------------------------------------------------------------------
(* Instructions and values *)

\* A value of the program: an immediate, a shader value known by an
\* identifier, an undefined value, or one of the fixed-function expressions
\* over buffered position components.
Val(k, a, b) == [k |-> k, a |-> a, b |-> b]
Imm(x) == Val("imm", x, 0)
ImmWord(w) == Val("word", w.hi, w.lo)
Ssa(id) == Val("ssa", id, 0)

\* The pass's pos[] entries: 0 is NULL, -1 an nir_ssa_undef, else the
\* identifier of the buffered channel.
NullDef == 0
UndefDef == -1

\* The shader values stored: one source vector for each width, known by its
\* component count nc.  Identifier of channel i of that vector, and of the
\* vector itself; a one-component vector is its own channel 0.
ChanId(nc, i) == 10 * nc + i + 1
SrcId(nc) == IF nc = 1 THEN ChanId(nc, 0) ELSE 10 * nc

\* An instruction.  offc/offv: whether src[1] is a constant, and its value
\* (the value it has at run time when it is not a constant).
\* val: the run-time value of a scalar integer source, a 32-bit word.
\* res: the value the uses of a load's destination read.
Instr(op, loc, comp, nc, mask, offc, offv, base, val, res) ==
    [ op |-> op, loc |-> loc, comp |-> comp, nc |-> nc, mask |-> mask,
      offc |-> offc, offv |-> offv, base |-> base, val |-> val, res |-> res ]

\* The instructions without operands of their own, and the loads.
EmitVertex == Instr("emit_vertex", "", 0, 0, 0, FALSE, 0, 0, WordOf(0), "")
EndPrimitive == Instr("end_primitive", "", 0, 0, 0, FALSE, 0, 0, WordOf(0), "")
Alu == Instr("alu", "", 0, 1, 0, FALSE, 0, 0, WordOf(0), "dest")
LoadInput(l, c) ==
    Instr("load_input", l, c, 1, 0, TRUE, 0, 0, WordOf(0), "dest")
LoadUniform(base, index) ==
    Instr("load_uniform", "", 0, 1, 0, FALSE, 0, base, WordOf(index), "dest")

NoInstr == Instr("none", "", 0, 0, 0, FALSE, 0, 0, WordOf(0), "")
Removed == Instr("removed", "", 0, 0, 0, FALSE, 0, 0, WordOf(0), "")

\* A physical write: nir_store_output with one component.  rel is the base
\* handed to v3d_nir_store_output, addr the VPM address written when the
\* lowered program runs, site the place in the pass that emitted it.
Write(site, rel, addr, val) ==
    [ site |-> site, rel |-> rel, addr |-> addr, val |-> val ]

\* An entry of the instruction list: orig is the position the instruction
\* had in the function body before the pass, 0 for one the pass inserted.
Entry(orig, I) == [orig |-> orig, I |-> I]

\* The entries of a function body handed to the pass.
Listed(body) == [i \in 1..Len(body) |-> Entry(i, body[i])]

\* Instructions the pass builds with nir_builder, known by their kind.
Inserted(ops) ==
    [i \in 1..Len(ops) |->
        Entry(0, Instr(ops[i], "", 0, 0, 0, FALSE, 0, 0, WordOf(0), ""))]

----------------------------------------------------------------------------
(* Initial state: struct v3d_nir_lower_io_state state = { 0 } *)

State0 ==
    [ pos_vpm_offset |-> 0,
      vp_vpm_offset |-> 0,
      zs_vpm_offset |-> 0,
      rcp_wc_vpm_offset |-> 0,
      psiz_vpm_offset |-> 0,
      varyings_vpm_offset |-> 0,
      output_header_size |-> 0,
      output_vertex_data_size |-> 0,
      varyings_stored |-> {},
      pos |-> << NullDef, NullDef, NullDef, NullDef >> ]

\* The geometry local variables do not exist before the prologue.
GsVars0 == [ created |-> FALSE, output_offset |-> 0, header_offset |-> 0,
             header |-> WordOf(0) ]

\* emits: emit-vertex operations executed.  vertex_stores: the varying slots
\* (VPM offsets past varyings_vpm_offset, within the vertex) a store's
\* physical write went to since the last emit-vertex.  walk_stores: the
\* same, since the start of the walk.  run: emit-vertex operations executed
\* since the prologue or the last end-primitive.  inserted_seen: dispatches
\* of instructions the pass itself inserted.  left: original store-output,
\* emit-vertex and end-primitive instructions the walk has passed and left
\* in the function.  seen: for every dispatch, in order, the position the
\* instruction had in the body before the pass, 0 for an inserted one.
Hist0 == [ emits |-> 0, vertex_stores |-> {}, walk_stores |-> {}, run |-> 0,
           inserted_seen |-> 0, left |-> 0, seen |-> << >> ]

\* assert() is kept, or compiled out by NDEBUG.
Builds == {"assert", "ndebug"}

\* For every key of Keys the one assert that depends on the key (in
\* reset_gs_header) holds, so the two builds run alike and one is drawn.
Init ==
    /\ key \in Keys
    /\ build = "assert"
    /\ pc = "layout"
    /\ n = 0
    /\ st = State0
    /\ gsv = GsVars0
    /\ vpm_output_size = 0
    /\ ins = NoInstr
    /\ cur = NoInstr
    /\ out = << >>
    /\ hist = Hist0
    /\ ahead = Listed(key.shader.body)

----------------------------------------------------------------------------
(* The instruction walk: nir_foreach_block, nir_foreach_instr_safe *)

\* The walk is at an instruction of the body before the pass: the head of
\* the list when the body was given, the next one drawn when it was not.
AtOriginal ==
    IF key.shader.given
    THEN ahead # << >> /\ Head(ahead).orig > 0
    ELSE ahead = << >> /\ n < MaxInstrs

\* That instruction is I.
Fetched(I) == key.shader.given => Head(ahead).I = I

\* Its position in the body before the pass.
Origin == IF key.shader.given THEN Head(ahead).orig ELSE n + 1

\* The list past the instruction the walk is at.
Rest == IF ahead = << >> THEN << >> ELSE Tail(ahead)

\* The nir_store_output intrinsics of a sequence of VPM writes.
WriteOps(writes) == [j \in 1..Len(writes) |-> "store_output"]

\* An iteration that reads the successor of the current instruction once
\* the handler has run.
IterateSafe_reread(rest, before, after) == Inserted(after) \o rest

\* nir_foreach_instr_safe: the successor of the current instruction is
\* taken before the handler runs, so the walk goes on at the old successor,
\* rest.  What the handler built at nir_before_instr lies behind the walk;
\* what it built at nir_after_instr lies between the current instruction
\* and that successor.
IterateSafe(rest, before, after) == rest

----------------------------------------------------------------------------
(* VPM Layout Calculator *)

\* A vertex layout that allocates the point-size slot whether or not
\* per_vertex_point_size is set.
LayoutVsFields_psiz_always(k) ==
    LET needs_ff_outputs == k.is_last_geometry_stage
        pos_off == IF needs_ff_outputs /\ k.is_coord THEN 0 ELSE -1
        o1 == IF needs_ff_outputs /\ k.is_coord THEN 4 ELSE 0
        vp_off == IF needs_ff_outputs THEN o1 ELSE -1
        o2 == IF needs_ff_outputs THEN o1 + 2 ELSE o1
        zs_off == IF needs_ff_outputs /\ ~k.is_coord THEN o2 ELSE -1
        rcp_off == IF needs_ff_outputs /\ ~k.is_coord THEN o2 + 1 ELSE -1
        o3 == IF needs_ff_outputs /\ ~k.is_coord THEN o2 + 2 ELSE o2
        psiz_off == IF needs_ff_outputs THEN o3 ELSE -1
        o4 == IF needs_ff_outputs THEN o3 + 1 ELSE o3
    IN  [ pos_vpm_offset |-> pos_off,
          vp_vpm_offset |-> vp_off,
          zs_vpm_offset |-> zs_off,
          rcp_wc_vpm_offset |-> rcp_off,
          psiz_vpm_offset |-> psiz_off,
          varyings_vpm_offset |-> o4 ]

\* v3d_nir_setup_vpm_layout_vs: the fields it assigns.
LayoutVsFields(k) ==
    LET needs_ff_outputs == k.is_last_geometry_stage
        pos_off == IF needs_ff_outputs /\ k.is_coord THEN 0 ELSE -1
        o1 == IF needs_ff_outputs /\ k.is_coord THEN 4 ELSE 0
        vp_off == IF needs_ff_outputs THEN o1 ELSE -1
        o2 == IF needs_ff_outputs THEN o1 + 2 ELSE o1
        zs_off == IF needs_ff_outputs /\ ~k.is_coord THEN o2 ELSE -1
        rcp_off == IF needs_ff_outputs /\ ~k.is_coord THEN o2 + 1 ELSE -1
        o3 == IF needs_ff_outputs /\ ~k.is_coord THEN o2 + 2 ELSE o2
        psiz_off == IF needs_ff_outputs /\ k.per_vertex_point_size
                    THEN o3 ELSE -1
        o4 == IF needs_ff_outputs /\ k.per_vertex_point_size
              THEN o3 + 1 ELSE o3
    IN  [ pos_vpm_offset |-> pos_off,
          vp_vpm_offset |-> vp_off,
          zs_vpm_offset |-> zs_off,
          rcp_wc_vpm_offset |-> rcp_off,
          psiz_vpm_offset |-> psiz_off,
          varyings_vpm_offset |-> o4 ]

v3d_nir_setup_vpm_layout_vs ==
    /\ pc = "layout"
    /\ key.stage = "VERTEX"
    /\ LET f == LayoutVsFields(key)
       IN  /\ st' = [st EXCEPT !.pos_vpm_offset = f.pos_vpm_offset,
                               !.vp_vpm_offset = f.vp_vpm_offset,
                               !.zs_vpm_offset = f.zs_vpm_offset,
                               !.rcp_wc_vpm_offset = f.rcp_wc_vpm_offset,
                               !.psiz_vpm_offset = f.psiz_vpm_offset,
                               !.varyings_vpm_offset = f.varyings_vpm_offset]
           /\ vpm_output_size' =
                  MAX2(1, f.varyings_vpm_offset + Len(key.used_outputs))
    /\ pc' = "walk"
    /\ UNCHANGED <<key, build, ahead, n, gsv, ins, cur, out, hist>>

\* A geometry layout whose header region leaves out the leading slot.
LayoutGsFields_no_count_slot(k, before) ==
    LET num_vertices == k.vertices_out
        header_size == num_vertices
        pos_off == IF k.is_coord THEN 0 ELSE -1
        o1 == IF k.is_coord THEN 4 ELSE 0
        vp_off == o1
        o2 == o1 + 2
        zs_off == IF ~k.is_coord THEN o2 ELSE -1
        rcp_off == IF ~k.is_coord THEN o2 + 1 ELSE -1
        o3 == IF ~k.is_coord THEN o2 + 2 ELSE o2
        psiz_off == IF k.per_vertex_point_size
                    THEN o3 ELSE before.psiz_vpm_offset
        o4 == IF k.per_vertex_point_size THEN o3 + 1 ELSE o3
    IN  [ pos_vpm_offset |-> pos_off,
          vp_vpm_offset |-> vp_off,
          zs_vpm_offset |-> zs_off,
          rcp_wc_vpm_offset |-> rcp_off,
          psiz_vpm_offset |-> psiz_off,
          varyings_vpm_offset |-> o4,
          output_header_size |-> header_size,
          output_vertex_data_size |-> o4 + Len(k.used_outputs) ]

\* v3d_nir_setup_vpm_layout_gs: the fields it assigns.  psiz_vpm_offset is
\* assigned only when per_vertex_point_size is set; otherwise it keeps the
\* value it had.
LayoutGsFields(k, before) ==
    LET num_vertices == k.vertices_out
        header_size == 1 + num_vertices
        pos_off == IF k.is_coord THEN 0 ELSE -1
        o1 == IF k.is_coord THEN 4 ELSE 0
        vp_off == o1
        o2 == o1 + 2
        zs_off == IF ~k.is_coord THEN o2 ELSE -1
        rcp_off == IF ~k.is_coord THEN o2 + 1 ELSE -1
        o3 == IF ~k.is_coord THEN o2 + 2 ELSE o2
        psiz_off == IF k.per_vertex_point_size
                    THEN o3 ELSE before.psiz_vpm_offset
        o4 == IF k.per_vertex_point_size THEN o3 + 1 ELSE o3
    IN  [ pos_vpm_offset |-> pos_off,
          vp_vpm_offset |-> vp_off,
          zs_vpm_offset |-> zs_off,
          rcp_wc_vpm_offset |-> rcp_off,
          psiz_vpm_offset |-> psiz_off,
          varyings_vpm_offset |-> o4,
          output_header_size |-> header_size,
          output_vertex_data_size |-> o4 + Len(k.used_outputs) ]

v3d_nir_setup_vpm_layout_gs ==
    /\ pc = "layout"
    /\ key.stage = "GEOMETRY"
    /\ LET f == LayoutGsFields(key, st)
       IN  /\ st' = [st EXCEPT !.pos_vpm_offset = f.pos_vpm_offset,
                               !.vp_vpm_offset = f.vp_vpm_offset,
                               !.zs_vpm_offset = f.zs_vpm_offset,
                               !.rcp_wc_vpm_offset = f.rcp_wc_vpm_offset,
                               !.psiz_vpm_offset = f.psiz_vpm_offset,
                               !.varyings_vpm_offset = f.varyings_vpm_offset,
                               !.output_header_size = f.output_header_size,
                               !.output_vertex_data_size =
                                   f.output_vertex_data_size]
           /\ vpm_output_size' =
                  f.output_header_size
                      + f.output_vertex_data_size * key.vertices_out
    /\ pc' = "prolog"
    /\ UNCHANGED <<key, build, ahead, n, gsv, ins, cur, out, hist>>

\* v3d_nir_lower_io, the layout switch for the stages that have no VPM layout.
SkipLayout ==
    /\ pc = "layout"
    /\ key.stage \in {"FRAGMENT", "COMPUTE"}
    /\ pc' = "walk"
    /\ UNCHANGED <<key, build, ahead, n, st, gsv, vpm_output_size,
                   ins, cur, out, hist>>

----------------------------------------------------------------------------
(* Physical writes *)

IsGeometry == key.stage = "GEOMETRY"

\* An address that leaves the offset register out.
StoreAddr_no_register(k, base, offset_reg) == base

\* v3d_nir_store_output: with an offset register the base is added to it and
\* the instruction's base is 0; without one the offset is the constant 0.
\* The address written is the sum of the two.
StoreAddr(k, base, offset_reg) ==
    IF k.stage = "GEOMETRY" THEN offset_reg + base ELSE base

v3d_nir_store_output(site, base, val) ==
    Write(site, base, StoreAddr(key, base, gsv.output_offset), val)

----------------------------------------------------------------------------
(* Varying lookup *)

\* A lookup that matches on the location alone.
v3d_varying_slot_vpm_offset_any_component(T, location, component) ==
    IF \E i \in 1..Len(T) : T[i].slot = location
    THEN (CHOOSE i \in 1..Len(T) :
             /\ T[i].slot = location
             /\ \A j \in 1..(i - 1) : T[j].slot # location) - 1
    ELSE -1

\* A lookup that returns the last matching entry instead of the first.
v3d_varying_slot_vpm_offset_last(T, location, component) ==
    IF \E i \in 1..Len(T) : T[i].slot = location /\ T[i].component = component
    THEN (CHOOSE i \in 1..Len(T) :
             /\ T[i].slot = location /\ T[i].component = component
             /\ \A j \in (i + 1)..Len(T) :
                   ~(T[j].slot = location /\ T[j].component = component)) - 1
    ELSE -1

\* v3d_varying_slot_vpm_offset: index (from 0) of the first entry of the
\* stage's used_outputs equal to (location, component), or -1.
v3d_varying_slot_vpm_offset(T, location, component) ==
    IF \E i \in 1..Len(T) : T[i].slot = location /\ T[i].component = component
    THEN (CHOOSE i \in 1..Len(T) :
             /\ T[i].slot = location /\ T[i].component = component
             /\ \A j \in 1..(i - 1) :
                   ~(T[j].slot = location /\ T[j].component = component)) - 1
    ELSE -1

----------------------------------------------------------------------------
(* Output Store Rewriter *)

\* The logical output operations of the vertex and geometry stages.
LogicalOutputOps == {"store_output", "emit_vertex", "end_primitive"}

\* 1 when original instruction I, replaced by C, is a logical output
\* operation still in the function (nir_instr_remove was not reached).
StillThere(I, C) ==
    IF I.op \in LogicalOutputOps /\ C.op # "removed" THEN 1 ELSE 0

\* 0xff00ffff: the header bits a layer store keeps.
HEADER_KEEP_MASK == W(65280, 65535)

TestBit(mask, i) == (mask \div Pow2(i)) % 2 = 1

\* The components of a store that reach the VPM write of the scalarizing
\* loop, in loop order: covered by the write mask and found in the table.
WrittenComps(T, I) ==
    SelectSeq([j \in 1..I.nc |-> j - 1],
              LAMBDA i : /\ TestBit(I.mask, i)
                         /\ v3d_varying_slot_vpm_offset(T, I.loc, I.comp + i)
                                # -1)

\* An adjustment made whether or not src[1] is a constant.
AdjustedOffset_always(T, I, i) ==
    v3d_varying_slot_vpm_offset(T, I.loc, I.comp + i) + I.offv * 4

\* vpm_offset of component i after the constant-offset adjustment.
AdjustedOffset(T, I, i) ==
    v3d_varying_slot_vpm_offset(T, I.loc, I.comp + i)
        + (IF I.offc THEN I.offv * 4 ELSE 0)

\* A buffering that ignores the starting component of the store.
BufferPos_from_zero(pos, I) ==
    IF I.loc = "POS"
    THEN [c \in 1..4 |->
            IF c - 1 < I.nc THEN ChanId(I.nc, c - 1) ELSE pos[c]]
    ELSE pos

\* The position components buffered by a store.
BufferPos(pos, I) ==
    IF I.loc = "POS"
    THEN [c \in 1..4 |->
            IF c - 1 >= I.comp /\ c - 1 < I.comp + I.nc
            THEN ChanId(I.nc, c - 1 - I.comp) ELSE pos[c]]
    ELSE pos

\* The header word a layer store puts back: bits [23:16] replaced.
LayerHeader(header, layer, fb_layers) ==
    LET cleared == iand(header, HEADER_KEEP_MASK)
        cond == Signed(layer) >= fb_layers
        layer_id == IF cond THEN WordOf(0) ELSE ishl(layer, 16)
    IN  ior(cleared, layer_id)

PsizWrites(I) ==
    IF I.loc = "PSIZ" /\ st.psiz_vpm_offset # -1
    THEN << v3d_nir_store_output("psiz", st.psiz_vpm_offset,
                                 Ssa(SrcId(I.nc))) >>
    ELSE << >>

VaryingWrites(T, I) ==
    LET comps == WrittenComps(T, I)
    IN  [j \in 1..Len(comps) |->
            v3d_nir_store_output("varying",
                st.varyings_vpm_offset + AdjustedOffset(T, I, comps[j]),
                Ssa(ChanId(I.nc, comps[j])))]

StoredBits(T, I) ==
    LET comps == WrittenComps(T, I)
    IN  { AdjustedOffset(T, I, comps[j]) : j \in 1..Len(comps) }

\* A store: location, starting component, component count, write mask,
\* src[1] (constant or not, and its value).
Store(l, comp, nc, mask, offc, offv) ==
    Instr("store_output", l, comp, nc, mask, offc, offv, 0, WordOf(0), "")

\* A layer store of the run-time value v whose lowered code loads the
\* framebuffer layer count f: the count is kept in the base field, which
\* a store does not otherwise use.
LayerStore(v, f) ==
    Instr("store_output", "LAYER", 0, 1, 1, TRUE, 0, f, WordOf(v), "")

\* Run-time source values of a layer store, as signed 32-bit integers, with
\* the framebuffer layer count loaded beside each.
LayerCases ==
    { <<-1, 2>>, <<1, 2>>, <<3, 2>>, <<300, 512>> }

StoreInstrs(stage) ==
    { Store("POS", 0, 4, 15, TRUE, 0), Store("POS", 2, 2, 3, TRUE, 0) }
    \cup
    { Store("VAR0", s[1], s[2], s[3], TRUE, 0) :
        s \in { <<0, 1, 1>>, <<0, 4, 15>>, <<0, 4, 5>> } }
    \cup
    { Store("VAR0", s[1], s[2], s[3], o[1], o[2]) :
        s \in { <<0, 1, 1>>, <<0, 4, 15>> },
        o \in { <<TRUE, 1>>, <<FALSE, 1>> } }
    \cup
    { Store("VAR1", s[1], s[2], s[3], TRUE, 0) :
        s \in { <<1, 1, 1>>, <<0, 2, 3>> } }
    \cup
    { Store("PSIZ", 0, 1, 1, TRUE, 0) }
    \cup
    (IF stage = "GEOMETRY"
     THEN { LayerStore(c[1], c[2]) : c \in LayerCases }
     ELSE {})

v3d_nir_lower_vpm_output ==
    /\ pc = "walk"
    /\ AtOriginal
    /\ key.stage \in {"VERTEX", "GEOMETRY"}
    /\ \E I \in StoreInstrs(key.stage) :
         LET T == key.used_outputs
             writes == PsizWrites(I) \o VaryingWrites(T, I)
             slots == { writes[j].rel - st.varyings_vpm_offset :
                          j \in { x \in 1..Len(writes) :
                                    writes[x].site = "varying" } }
         IN  /\ ins' = I
             /\ cur' = Removed
             /\ out' = writes
             /\ st' = [st EXCEPT
                          !.pos = BufferPos(st.pos, I),
                          !.varyings_stored = @ \cup StoredBits(T, I)]
             /\ gsv' = IF I.loc = "LAYER"
                       THEN [gsv EXCEPT !.header =
                                LayerHeader(gsv.header, I.val, I.base)]
                       ELSE gsv
             /\ hist' = [hist EXCEPT !.vertex_stores = @ \cup slots,
                                      !.walk_stores = @ \cup slots,
                                      !.left = @ + StillThere(ins', cur'),
                                      !.seen = Append(@, Origin)]
    /\ Fetched(ins')
    /\ ahead' = IterateSafe(Rest, WriteOps(out'), << >>)
    /\ n' = n + 1
    /\ UNCHANGED <<key, build, pc, vpm_output_size>>

\* v3d_nir_lower_io_instr, store_output in a stage other than vertex and
\* geometry: not touched.
KeepStoreOutput ==
    /\ pc = "walk"
    /\ AtOriginal
    /\ key.stage \in {"FRAGMENT", "COMPUTE"}
    /\ \E I \in StoreInstrs(key.stage) :
         /\ ins' = I
         /\ cur' = I
    /\ out' = << >>
    /\ hist' = [hist EXCEPT !.left = @ + StillThere(ins', cur'),
                             !.seen = Append(@, Origin)]
    /\ Fetched(ins')
    /\ ahead' = IterateSafe(Rest, << >>, << >>)
    /\ n' = n + 1
    /\ UNCHANGED <<key, build, pc, st, gsv, vpm_output_size>>

----------------------------------------------------------------------------
(* Fixed-Function Output Emitter *)

\* for (i < 4) if (!state->pos[i]) state->pos[i] = nir_ssa_undef
FillUndef(pos) == [c \in 1..4 |-> IF pos[c] = NullDef THEN UndefDef ELSE pos[c]]

PosVal(id) == IF id = UndefDef THEN Val("undef", 0, 0) ELSE Ssa(id)

FFPosWrites(pos) ==
    IF st.pos_vpm_offset # -1
    THEN [c \in 1..4 |->
            v3d_nir_store_output("pos", st.pos_vpm_offset + (c - 1),
                                 PosVal(pos[c]))]
    ELSE << >>

\* A viewport output that writes X only.
FFViewportWrites_x_only(pos) ==
    IF st.vp_vpm_offset # -1
    THEN << v3d_nir_store_output("vp", st.vp_vpm_offset,
                                 Val("vp_x", pos[1], pos[4])) >>
    ELSE << >>

\* floor(pos[i] * viewport scale * rcp_wc), as an expression over the
\* identifiers of pos[i] and pos[3].
FFViewportWrites(pos) ==
    IF st.vp_vpm_offset # -1
    THEN [c \in 1..2 |->
            v3d_nir_store_output("vp", st.vp_vpm_offset + (c - 1),
                Val(IF c = 1 THEN "vp_x" ELSE "vp_y", pos[c], pos[4]))]
    ELSE << >>

FFDepthWrites(pos) ==
    IF st.zs_vpm_offset # -1
    THEN << v3d_nir_store_output("zs", st.zs_vpm_offset,
                                 Val("zs", pos[3], pos[4])) >>
    ELSE << >>

FFRcpWrites(pos) ==
    IF st.rcp_wc_vpm_offset # -1
    THEN << v3d_nir_store_output("rcp_wc", st.rcp_wc_vpm_offset,
                                 Val("frcp", pos[4], 0)) >>
    ELSE << >>

\* A zero fill that does not look at the stored bits.
ZeroFillSlots_all(count, stored) == [j \in 1..count |-> j - 1]

\* The slots a zero is stored to: requested and not marked stored.
ZeroFillSlots(count, stored) ==
    SelectSeq([j \in 1..count |-> j - 1], LAMBDA i : i \notin stored)

\* The number of bits of state->varyings_stored.  The header that defines
\* it is not part of the source at hand; 64 is the size of the stage input
\* limit the bit-vector is sized to.
V3D_MAX_ANY_STAGE_INPUTS == 64

\* The slots of the zero-fill loop whose BITSET_TEST reads past the bits of
\* varyings_stored (into the words that follow it): what such a read finds
\* is not determined by the pass.
OutOfBitset(count) == { i \in 0..(count - 1) : i >= V3D_MAX_ANY_STAGE_INPUTS }

\* What BITSET_TEST finds set: the stored bits inside the bit-vector, and
\* the slots `beyond` among those read past its end.
BitsetRead(stored, beyond) ==
    { i \in stored : i < V3D_MAX_ANY_STAGE_INPUTS } \cup beyond

FFZeroWrites(beyond) ==
    LET slots == ZeroFillSlots(num_used_outputs,
                               BitsetRead(st.varyings_stored, beyond))
    IN  [j \in 1..Len(slots) |->
            v3d_nir_store_output("zero", st.varyings_vpm_offset + slots[j],
                                 Imm(0))]

v3d_nir_emit_ff_vpm_outputs(beyond) ==
    LET pos == FillUndef(st.pos)
    IN  FFPosWrites(pos) \o FFViewportWrites(pos) \o FFDepthWrites(pos)
        \o FFRcpWrites(pos) \o FFZeroWrites(beyond)

----------------------------------------------------------------------------
(* Geometry Emission State Machine *)

\* 0xffffff00, of the assert in reset_gs_header.
HEADER_SIZE_LIMIT_MASK == W(65535, 65280)

\* A mask that drops the layer bits together with the new-primitive bit.
CLEAR_NEW_PRIMITIVE_MASK_and_layer == W(65280, 65534)

\* A mask that clears nothing.
CLEAR_NEW_PRIMITIVE_MASK_none == W(65535, 65535)

\* 0xfffffffe, which clears the New Primitive bit.
CLEAR_NEW_PRIMITIVE_MASK == W(65535, 65534)

NEW_PRIMITIVE_OFFSET == 0
VERTEX_DATA_LENGTH_OFFSET == 8
VERTEX_COUNT_OFFSET == 16

\* assert(e): execution goes on if e holds or the build defines NDEBUG.
AssertPasses(e) == e \/ build = "ndebug"

FitsHeader(vertex_data_size) ==
    iand(WordOf(vertex_data_size), HEADER_SIZE_LIMIT_MASK) = WordOf(0)

\* A reset that puts the vertex data length in the low byte and the flag
\* above it.
reset_gs_header_swapped(vertex_data_size) ==
    ior(ishl(WordOf(1), VERTEX_DATA_LENGTH_OFFSET),
        ishl(WordOf(vertex_data_size), NEW_PRIMITIVE_OFFSET))

\* reset_gs_header: the word stored to the header variable.
reset_gs_header(vertex_data_size) ==
    ior(ishl(WordOf(1), NEW_PRIMITIVE_OFFSET),
        ishl(WordOf(vertex_data_size), VERTEX_DATA_LENGTH_OFFSET))

\* emit_gs_prolog, at nir_before_block(first): three nir_store_var of a
\* nir_imm_int (the last one in reset_gs_header), each a load_const, a
\* variable deref and a store_deref.
PrologInstrs ==
    << "load_const", "deref_var", "store_deref",
       "load_const", "deref_var", "store_deref",
       "load_const", "deref_var", "store_deref" >>

emit_gs_prolog ==
    /\ pc = "prolog"
    /\ key.stage = "GEOMETRY"
    /\ ~gsv.created
    /\ IF AssertPasses(FitsHeader(st.output_vertex_data_size))
       THEN /\ gsv' = [ created |-> TRUE,
                        output_offset |-> st.output_header_size,
                        header_offset |-> 1,
                        header |-> reset_gs_header(st.output_vertex_data_size) ]
            /\ ahead' = Inserted(PrologInstrs) \o ahead
            /\ pc' = "walk"
       ELSE /\ gsv' = gsv
            /\ ahead' = ahead
            /\ pc' = "aborted"
    /\ UNCHANGED <<key, build, n, st, vpm_output_size, ins, cur, out, hist>>

\* nir_foreach_instr_safe reaching an instruction the pass built: the walk
\* starts at the head of the first block, where the prologue put its
\* instructions, and v3d_nir_lower_io_instr is called on each; none is an
\* intrinsic the switch handles, so each is left as it is.
DispatchInserted ==
    /\ pc = "walk"
    /\ ahead # << >>
    /\ Head(ahead).orig = 0
    /\ ins' = Head(ahead).I
    /\ cur' = ins'
    /\ out' = << >>
    /\ ahead' = Tail(ahead)
    /\ hist' = [hist EXCEPT !.inserted_seen = @ + 1,
                             !.seen = Append(@, 0)]
    /\ UNCHANGED <<key, build, pc, n, st, gsv, vpm_output_size>>

v3d_nir_lower_emit_vertex ==
    /\ pc = "walk"
    /\ AtOriginal
    /\ Fetched(EmitVertex)
    /\ key.stage = "GEOMETRY"
    /\ LET header == gsv.header
           header_offset == gsv.header_offset
           output_offset == gsv.output_offset
       IN  /\ \E beyond \in SUBSET OutOfBitset(num_used_outputs) :
                 out' = v3d_nir_emit_ff_vpm_outputs(beyond)
                        \o << Write("vertex_header", 0, header_offset + 0,
                                    ImmWord(header)) >>
           /\ gsv' = [gsv EXCEPT
                        !.output_offset =
                            output_offset + st.output_vertex_data_size,
                        !.header_offset = header_offset + 1,
                        !.header = iand(header, CLEAR_NEW_PRIMITIVE_MASK)]
    /\ st' = [st EXCEPT !.pos = FillUndef(st.pos)]
    /\ ins' = EmitVertex
    /\ cur' = Removed
    /\ hist' = [hist EXCEPT !.emits = @ + 1, !.vertex_stores = {},
                             !.run = @ + 1,
                             !.left = @ + StillThere(ins', cur'),
                             !.seen = Append(@, Origin)]
    /\ ahead' = IterateSafe(Rest, WriteOps(out'), << >>)
    /\ n' = n + 1
    /\ UNCHANGED <<key, build, pc, vpm_output_size>>

\* An end-primitive that also rewinds the header offset.
v3d_nir_lower_end_primitive_rewind ==
    /\ pc = "walk"
    /\ AtOriginal
    /\ Fetched(EndPrimitive)
    /\ key.stage = "GEOMETRY"
    /\ gsv.created
    /\ gsv' = [gsv EXCEPT !.header =
                  reset_gs_header(st.output_vertex_data_size),
                          !.header_offset = 1]
    /\ pc' = pc
    /\ ins' = EndPrimitive
    /\ cur' = Removed
    /\ out' = << >>
    /\ hist' = [hist EXCEPT !.run = 0, !.left = @ + StillThere(ins', cur'),
                             !.seen = Append(@, Origin)]
    /\ ahead' = IterateSafe(Rest, << "load_const", "deref_var", "store_deref" >>, << >>)
    /\ n' = n + 1
    /\ UNCHANGED <<key, build, st, vpm_output_size>>

v3d_nir_lower_end_primitive ==
    /\ pc = "walk"
    /\ AtOriginal
    /\ Fetched(EndPrimitive)
    /\ key.stage = "GEOMETRY"
    /\ gsv.created
    /\ IF AssertPasses(FitsHeader(st.output_vertex_data_size))
       THEN /\ gsv' = [gsv EXCEPT !.header =
                          reset_gs_header(st.output_vertex_data_size)]
            /\ pc' = pc
       ELSE /\ gsv' = gsv
            /\ pc' = "aborted"
    /\ ins' = EndPrimitive
    /\ cur' = Removed
    /\ out' = << >>
    /\ hist' = [hist EXCEPT !.run = 0, !.left = @ + StillThere(ins', cur'),
                             !.seen = Append(@, Origin)]
    /\ ahead' = IterateSafe(Rest, << "load_const", "deref_var", "store_deref" >>, << >>)
    /\ n' = n + 1
    /\ UNCHANGED <<key, build, st, vpm_output_size>>

----------------------------------------------------------------------------
(* Input Fixups *)

\* The vertex-stage load_inputs drawn: location and component.
VertexInputs ==
    { <<"ATTR0", 0>>, <<"ATTR0", 1>>, <<"ATTR0", 2>>, <<"ATTR0", 3>>,
      <<"ATTR1", 0>>, <<"ATTR1", 1>> }

\* A swizzle that moves component 0 to 2 and leaves 2 where it is.
SwizzledComponent_one_way(mask, location, comp) ==
    IF mask = {} THEN comp
    ELSE IF location \notin mask THEN comp
    ELSE IF comp = 0 THEN 2
    ELSE comp

\* v3d_nir_lower_vertex_input: the component the load reads afterwards.
SwizzledComponent(mask, location, comp) ==
    IF mask = {} THEN comp
    ELSE IF location \notin mask THEN comp
    ELSE IF comp = 0 \/ comp = 2 THEN (comp + 2) % 4
    ELSE comp

v3d_nir_lower_vertex_input ==
    /\ pc = "walk"
    /\ AtOriginal
    /\ key.stage = "VERTEX"
    /\ \E v \in VertexInputs :
         LET I == Instr("load_input", v[1], v[2], 1, 0, TRUE, 0, 0, WordOf(0),
                        "dest")
         IN  /\ ins' = I
             /\ cur' = [I EXCEPT !.comp =
                           SwizzledComponent(key.va_swap_rb_mask, v[1], v[2])]
    /\ out' = << >>
    /\ hist' = [hist EXCEPT !.seen = Append(@, Origin)]
    /\ Fetched(ins')
    /\ ahead' = IterateSafe(Rest, << >>, << >>)
    /\ n' = n + 1
    /\ UNCHANGED <<key, build, pc, st, gsv, vpm_output_size>>

\* What nir_find_variable_with_driver_location finds for a fragment load's
\* base: no variable, or a variable with one of these locations.
FragmentInputVars == {"NOVAR", "PNTC", "TEX0", "TEX1", "VAR0"}

\* util_varying_is_point_coord (util/u_helpers.h)
util_varying_is_point_coord(slot, sprite_coord_enable) ==
    \/ slot = "PNTC"
    \/ slot \in {"TEX0", "TEX1"} /\ slot \in sprite_coord_enable

\* nir_fsub_imm(b, 1.0, result)
FSubFromOne(result) ==
    CASE result = "dest" -> "1.0-dest"
      [] result = "0.0" -> "1.0-0.0"
      [] result = "1.0" -> "1.0-1.0"
      [] OTHER -> "1.0-?"

\* A fixup that flips component 1 before the switch on the component.
FragmentInputResult_flip_first(k, var, comp) ==
    IF k.environment = "OPENGL" THEN "dest"
    ELSE IF var # "NOVAR"
            /\ util_varying_is_point_coord(var, k.point_sprite_mask)
    THEN LET flipped ==
                 IF k.point_coord_upper_left /\ comp = 1
                 THEN FSubFromOne("dest") ELSE "dest"
         IN  CASE comp \in {0, 1} ->
                    IF ~k.is_points THEN "0.0" ELSE flipped
               [] comp = 2 -> "0.0"
               [] comp = 3 -> "1.0"
               [] OTHER -> flipped
    ELSE "dest"

\* v3d_nir_lower_fragment_input: the value the uses of the load read.
FragmentInputResult(k, var, comp) ==
    IF k.environment = "OPENGL" THEN "dest"
    ELSE IF var # "NOVAR"
            /\ util_varying_is_point_coord(var, k.point_sprite_mask)
    THEN LET switched ==
                 CASE comp \in {0, 1} ->
                        IF ~k.is_points THEN "0.0" ELSE "dest"
                   [] comp = 2 -> "0.0"
                   [] comp = 3 -> "1.0"
                   [] OTHER -> "dest"
         IN  IF k.point_coord_upper_left /\ comp = 1
             THEN FSubFromOne(switched) ELSE switched
    ELSE "dest"

\* What v3d_nir_lower_fragment_input builds at nir_after_instr(intr): a
\* load_const for each nir_imm_float, and the fsub of nir_fsub_imm with the
\* load_const of its 1.0.
FragmentInputInserted(result) ==
    CASE result = "dest" -> << >>
      [] result \in {"0.0", "1.0"} -> << "load_const" >>
      [] result = "1.0-dest" -> << "load_const", "alu" >>
      [] OTHER -> << "load_const", "load_const", "alu" >>

v3d_nir_lower_fragment_input ==
    /\ pc = "walk"
    /\ AtOriginal
    /\ key.stage = "FRAGMENT"
    /\ \E v \in FragmentInputVars, c \in 0..3 :
         LET I == Instr("load_input", v, c, 1, 0, TRUE, 0, 0, WordOf(0), "dest")
         IN  /\ ins' = I
             /\ cur' = [I EXCEPT !.res = FragmentInputResult(key, v, c)]
             /\ Fetched(I)
             /\ ahead' = IterateSafe(Rest, << >>,
                                      FragmentInputInserted(cur'.res))
    /\ out' = << >>
    /\ hist' = [hist EXCEPT !.seen = Append(@, Origin)]
    /\ n' = n + 1
    /\ UNCHANGED <<key, build, pc, st, gsv, vpm_output_size>>

\* v3d_nir_lower_io_instr, load_input in the geometry and compute stages.
KeepLoadInput ==
    /\ pc = "walk"
    /\ AtOriginal
    /\ key.stage \in {"GEOMETRY", "COMPUTE"}
    /\ \E c \in {0} :
         LET I == Instr("load_input", "VAR0", c, 1, 0, TRUE, 0, 0, WordOf(0),
                        "dest")
         IN  /\ ins' = I
             /\ cur' = I
    /\ out' = << >>
    /\ hist' = [hist EXCEPT !.seen = Append(@, Origin)]
    /\ Fetched(ins')
    /\ ahead' = IterateSafe(Rest, << >>, << >>)
    /\ n' = n + 1
    /\ UNCHANGED <<key, build, pc, st, gsv, vpm_output_size>>

----------------------------------------------------------------------------
(* Uniform Offset Normalizer *)

\* Static bases and run-time dynamic indices of the load_uniforms drawn.
UniformLoads == { <<0, 3>>, <<4, 3>>, <<4, 268435457>> }

\* A normalizer that rescales in every environment.
LoweredUniform_every_environment(k, I) ==
    [I EXCEPT !.base = I.base * 16, !.val = ishl(I.val, 4)]

\* A normalizer that rescales the base and leaves the dynamic index alone.
LoweredUniform_base_only(k, I) ==
    IF k.environment = "VULKAN" THEN I
    ELSE [I EXCEPT !.base = I.base * 16]

\* v3d_nir_lower_uniform
LoweredUniform(k, I) ==
    IF k.environment = "VULKAN" THEN I
    ELSE [I EXCEPT !.base = I.base * 16, !.val = ishl(I.val, 4)]

\* What v3d_nir_lower_uniform builds at nir_before_instr(intr): the
\* load_const and the ishl of nir_ishl_imm.
UniformInserted(k) ==
    IF k.environment = "VULKAN" THEN << >> ELSE << "load_const", "alu" >>

v3d_nir_lower_uniform ==
    /\ pc = "walk"
    /\ AtOriginal
    /\ \E u \in UniformLoads :
         LET I == Instr("load_uniform", "", 0, 1, 0, FALSE, 0, u[1],
                        WordOf(u[2]), "dest")
         IN  /\ ins' = I
             /\ cur' = LoweredUniform(key, I)
    /\ out' = << >>
    /\ hist' = [hist EXCEPT !.seen = Append(@, Origin)]
    /\ Fetched(ins')
    /\ ahead' = IterateSafe(Rest, UniformInserted(key), << >>)
    /\ n' = n + 1
    /\ UNCHANGED <<key, build, pc, st, gsv, vpm_output_size>>

\* v3d_nir_lower_io_instr: an instruction that is no intrinsic, or an
\* intrinsic of the default case.
OtherInstr ==
    /\ pc = "walk"
    /\ AtOriginal
    /\ Fetched(Alu)
    /\ ins' = Alu
    /\ cur' = ins'
    /\ out' = << >>
    /\ hist' = [hist EXCEPT !.seen = Append(@, Origin)]
    /\ ahead' = IterateSafe(Rest, << >>, << >>)
    /\ n' = n + 1
    /\ UNCHANGED <<key, build, pc, st, gsv, vpm_output_size>>

----------------------------------------------------------------------------
(* After the last block *)

\* Vertex stage: the fixed-function outputs of the single vertex.
EndVertex ==
    /\ pc = "walk"
    /\ ahead = << >>
    /\ key.stage = "VERTEX"
    /\ \E beyond \in SUBSET OutOfBitset(num_used_outputs) :
         out' = v3d_nir_emit_ff_vpm_outputs(beyond)
    /\ st' = [st EXCEPT !.pos = FillUndef(st.pos)]
    /\ ins' = NoInstr
    /\ cur' = NoInstr
    /\ pc' = "done"
    /\ UNCHANGED <<key, build, ahead, n, gsv, vpm_output_size, hist>>

\* An output header that counts the header slot as a vertex.
OutputHeader_no_decrement(header_offset, output_header_size) ==
    LET vertex_count == WordOf(header_offset)
    IN  ior(ishl(vertex_count, VERTEX_COUNT_OFFSET),
            WordOf(output_header_size))

\* emit_gs_vpm_output_header_prolog: the word written to VPM address 0.
OutputHeader(header_offset, output_header_size) ==
    LET vertex_count == WordOf(header_offset + (-1))
    IN  ior(ishl(vertex_count, VERTEX_COUNT_OFFSET),
            WordOf(output_header_size))

EndGeometry ==
    /\ pc = "walk"
    /\ ahead = << >>
    /\ key.stage = "GEOMETRY"
    /\ out' = << Write("output_header", 0, 0,
                       ImmWord(OutputHeader(gsv.header_offset,
                                        st.output_header_size))) >>
    /\ ins' = NoInstr
    /\ cur' = NoInstr
    /\ pc' = "done"
    /\ UNCHANGED <<key, build, ahead, n, st, gsv, vpm_output_size, hist>>

EndOther ==
    /\ pc = "walk"
    /\ ahead = << >>
    /\ key.stage \in {"FRAGMENT", "COMPUTE"}
    /\ out' = << >>
    /\ ins' = NoInstr
    /\ cur' = NoInstr
    /\ pc' = "done"
    /\ UNCHANGED <<key, build, ahead, n, st, gsv, vpm_output_size, hist>>

----------------------------------------------------------------------------

Next ==
    \/ v3d_nir_setup_vpm_layout_vs
    \/ v3d_nir_setup_vpm_layout_gs
    \/ SkipLayout
    \/ emit_gs_prolog
    \/ DispatchInserted
    \/ v3d_nir_lower_vpm_output
    \/ KeepStoreOutput
    \/ v3d_nir_lower_emit_vertex
    \/ v3d_nir_lower_end_primitive
    \/ v3d_nir_lower_vertex_input
    \/ v3d_nir_lower_fragment_input
    \/ KeepLoadInput
    \/ v3d_nir_lower_uniform
    \/ OtherInstr
    \/ EndVertex
    \/ EndGeometry
    \/ EndOther

Spec == Init /\ [][Next]_vars

----------------------------------------------------------------------------
(* The pass on function bodies given as instruction lists *)

\* The instructions the given bodies of a stage are made of.
GivenInstrs(stage) ==
    CASE stage = "VERTEX" ->
           { Store("VAR1", 1, 1, 1, TRUE, 0), LoadInput("ATTR0", 0),
             LoadUniform(4, 3), Alu }
      [] stage = "GEOMETRY" ->
           { Store("VAR1", 1, 1, 1, TRUE, 0), EmitVertex, EndPrimitive,
             LoadInput("VAR0", 0), LoadUniform(4, 3), Alu }
      [] stage = "FRAGMENT" ->
           { Store("VAR0", 0, 1, 1, TRUE, 0), LoadInput("PNTC", 1),
             LoadInput("PNTC", 3), LoadInput("VAR0", 0), LoadUniform(4, 3),
             Alu }
      [] OTHER ->
           { LoadInput("VAR0", 0), LoadUniform(4, 3), Alu }

\* Every list of at most len instructions of S.
Bodies(S, len) == UNION { [1..m -> S] : m \in 0..len }

\* One key of each stage, with every body of its instructions.
NarrowKeys ==
    { Key("VERTEX", "OPENGL", TRUE, FALSE, TRUE,
          << Slot("POS", 0), Slot("VAR1", 1) >>, 0, {"ATTR0"}, {}, FALSE,
          FALSE),
      Key("GEOMETRY", "OPENGL", TRUE, FALSE, TRUE,
          << Slot("POS", 0), Slot("VAR1", 1) >>, MaxVerticesOut, {}, {},
          FALSE, FALSE),
      Key("FRAGMENT", "VULKAN", FALSE, FALSE, FALSE, << >>, 0, {}, {}, TRUE,
          TRUE),
      Key("COMPUTE", "OPENGL", FALSE, FALSE, FALSE, << >>, 0, {}, {}, FALSE,
          FALSE) }

\* Geometry keys whose vertex_data_size is at the 8-bit limit of the header
\* field and one below it.  They hold more used outputs than
\* V3D_MAX_ANY_STAGE_INPUTS: keys a caller that breaks the contract of the
\* pass hands in, the case the size check of reset_gs_header is there for.
WideKeys ==
    { Key("GEOMETRY", "OPENGL", TRUE, FALSE, FALSE, WideTable(len), 1, {},
          {}, FALSE, FALSE) :
        len \in { WideOutputs - 1, WideOutputs } }

\* The bodies handed in with a key.  Those of a wide key hold no
\* emit-vertex: the zero-fill of one reads past varyings_stored for every
\* slot from V3D_MAX_ANY_STAGE_INPUTS on, each read with two outcomes, more
\* outcomes than can be listed.
GivenBodies(k) ==
    IF k \in WideKeys
    THEN Bodies(GivenInstrs(k.stage) \ {EmitVertex}, MaxGivenLen)
    ELSE Bodies(GivenInstrs(k.stage), MaxGivenLen)

GivenKeys ==
    UNION { { [k EXCEPT !.shader = Given(body)] : body \in GivenBodies(k) } :
              k \in NarrowKeys \cup WideKeys }

\* The pass on a given body, in both builds.
InitGiven ==
    /\ key \in GivenKeys
    /\ build \in Builds
    /\ pc = "layout"
    /\ n = 0
    /\ st = State0
    /\ gsv = GsVars0
    /\ vpm_output_size = 0
    /\ ins = NoInstr
    /\ cur = NoInstr
    /\ out = << >>
    /\ hist = Hist0
    /\ ahead = Listed(key.shader.body)

SpecGiven == InitGiven /\ [][Next]_vars

----------------------------------------------------------------------------
(* Properties *)

MinOf(S) == CHOOSE m \in S : \A x \in S : m <= x

\* The step just taken lowered a store-output of the vertex or geometry stage.
StoreLowered ==
    /\ key.stage \in {"VERTEX", "GEOMETRY"}
    /\ ins.op = "store_output"
    /\ cur.op = "removed"

\* Components of store I covered by its write mask.
CoveredComps(I) == { i \in 0..(I.nc - 1) : (I.mask \div (2 ^ i)) % 2 = 1 }

\* Positions (from 1) of the pair (location of I, starting component + i)
\* in table T.
TableMatches(T, I, i) ==
    { j \in 1..Len(T) : T[j].slot = I.loc /\ T[j].component = I.comp + i }

\* Positions in a sequence of writes of those that carry channel i of the
\* source of store I into the varying region / anywhere.
VaryingWritesOf(ws, I, i) ==
    { j \in 1..Len(ws) : ws[j].site = "varying"
                         /\ ws[j].val = Ssa(ChanId(I.nc, i)) }

AnyWritesOf(ws, I, i) ==
    { j \in 1..Len(ws) : ws[j].val = Ssa(ChanId(I.nc, i)) }

\* The run-time base the geometry stage adds to every address of a vertex.
VertexBase == IF key.stage = "GEOMETRY" THEN gsv.output_offset ELSE 0

\* C1 as stated: a covered component found in T gives exactly one physical
\* write at varyings_base + its index in T; a covered component not in T
\* gives no physical write and marks no slot stored.
C1_AsStated ==
    [][ (n' = n + 1 /\ StoreLowered') =>
        LET I == ins'
            T == key.used_outputs
        IN  /\ \A i \in CoveredComps(I) :
                 IF TableMatches(T, I, i) # {}
                 THEN /\ Cardinality(AnyWritesOf(out', I, i)) = 1
                      /\ \A j \in AnyWritesOf(out', I, i) :
                           out'[j].rel = st.varyings_vpm_offset
                                         + (MinOf(TableMatches(T, I, i)) - 1)
                 ELSE AnyWritesOf(out', I, i) = {}
            /\ (\A i \in CoveredComps(I) : TableMatches(T, I, i) = {})
                  => st'.varyings_stored = st.varyings_stored
      ]_vars

\* C1 (amended): in the vertex and geometry stages every component of a
\* store-output that the write mask covers and whose (location, starting
\* component + i) is in T gives exactly one write into the varying region,
\* at varyings_base + (first index of the pair in T) + 4k within the vertex
\* (k the store's constant offset operand, 0 when it is not a constant; the
\* geometry stage adds the current output_offset), and marks that slot
\* stored; every other component gives no write into the varying region and
\* marks no slot stored.
C1_StoreWrites ==
    [][ (n' = n + 1 /\ StoreLowered') =>
        LET I == ins'
            T == key.used_outputs
            k == IF I.offc THEN I.offv ELSE 0
            Hit == { i \in CoveredComps(I) : TableMatches(T, I, i) # {} }
            SlotOf(i) == (MinOf(TableMatches(T, I, i)) - 1) + 4 * k
        IN  /\ \A i \in 0..(I.nc - 1) :
                 IF i \in Hit
                 THEN /\ Cardinality(VaryingWritesOf(out', I, i)) = 1
                      /\ \A j \in VaryingWritesOf(out', I, i) :
                           /\ out'[j].rel = st.varyings_vpm_offset + SlotOf(i)
                           /\ out'[j].addr = VertexBase + out'[j].rel
                 ELSE VaryingWritesOf(out', I, i) = {}
            /\ Cardinality({ j \in 1..Len(out') : out'[j].site = "varying" })
                  = Cardinality(Hit)
            /\ st'.varyings_stored =
                  st.varyings_stored \cup { SlotOf(i) : i \in Hit }
      ]_vars

\* A store with a covered component that is in T (and was written) and a
\* covered component that is not, under a constant offset of 1.
C1_Witness ==
    /\ StoreLowered
    /\ ins.offc /\ ins.offv = 1
    /\ \E i \in CoveredComps(ins) :
         /\ TableMatches(key.used_outputs, ins, i) # {}
         /\ VaryingWritesOf(out, ins, i) # {}
    /\ \E i \in CoveredComps(ins) : TableMatches(key.used_outputs, ins, i) = {}

\* The step just taken ran the Fixed-Function Output Emitter for a vertex:
\* an emit-vertex of the geometry stage, or the end of a vertex-stage function.
EmitterRan ==
    \/ key.stage = "GEOMETRY" /\ ins.op = "emit_vertex" /\ cur.op = "removed"
    \/ key.stage = "VERTEX" /\ pc = "done"

\* Positions in a sequence of writes of the zero writes to varying slot i.
ZeroWritesTo(ws, i) ==
    { j \in 1..Len(ws) : /\ ws[j].val = Imm(0)
                         /\ ws[j].rel = st.varyings_vpm_offset + i }

\* C2 as stated: for every vertex output and every slot i in [0, |T|), one
\* zero write to the vertex's slot i if no store wrote slot i for that
\* vertex, and none if one did.
C2_AsStated ==
    [][ (pc = "walk" /\ EmitterRan') =>
        \A i \in 0..(Len(key.used_outputs) - 1) :
          /\ Cardinality(ZeroWritesTo(out', i))
                = (IF i \in hist.vertex_stores THEN 0 ELSE 1)
          /\ \A j \in ZeroWritesTo(out', i) :
                out'[j].addr = VertexBase + out'[j].rel
      ]_vars

\* C2 (amended): each time a vertex is output, for every slot i in
\* [0, |T|): if no store dispatched earlier in the walk, for this or for an
\* earlier vertex, wrote slot i, exactly one write of 0 goes to the vertex's
\* slot varyings_base + i; if one did, no zero write is issued; and no zero
\* write goes anywhere else.  In the vertex stage, with its single vertex,
\* this is the claim as stated.
C2_ZeroFill ==
    [][ (pc = "walk" /\ EmitterRan') =>
        /\ \A i \in 0..(Len(key.used_outputs) - 1) :
             /\ Cardinality(ZeroWritesTo(out', i))
                   = (IF i \in hist.walk_stores THEN 0 ELSE 1)
             /\ \A j \in ZeroWritesTo(out', i) :
                   out'[j].addr = VertexBase + out'[j].rel
        /\ Cardinality({ j \in 1..Len(out') : out'[j].val = Imm(0) })
              = Cardinality({ i \in 0..(Len(key.used_outputs) - 1) :
                                i \notin hist.walk_stores })
        /\ (key.stage = "VERTEX" => hist.walk_stores = hist.vertex_stores)
      ]_vars

\* The second vertex of a geometry shader is emitted with one requested slot
\* stored earlier in the walk and another zero-filled.
C2_Witness ==
    /\ key.stage = "GEOMETRY" /\ ins.op = "emit_vertex"
    /\ hist.emits = 2
    /\ \E i \in 0..(Len(key.used_outputs) - 1) : i \in hist.walk_stores
    /\ \E i \in 0..(Len(key.used_outputs) - 1) : ZeroWritesTo(out, i) # {}

\* The layout calculator has run.
LayoutDone ==
    /\ key.stage \in {"VERTEX", "GEOMETRY"}
    /\ pc \in {"prolog", "walk", "done"}

\* The five fixed-function offsets with the number of slots of each.
FixedRanges ==
    << <<st.pos_vpm_offset, 4>>, <<st.vp_vpm_offset, 2>>,
       <<st.zs_vpm_offset, 1>>, <<st.rcp_wc_vpm_offset, 1>>,
       <<st.psiz_vpm_offset, 1>> >>

RECURSIVE SumPresent(_, _)
SumPresent(R, i) ==
    IF i = 0 THEN 0
    ELSE (IF R[i][1] # -1 THEN R[i][2] ELSE 0) + SumPresent(R, i - 1)

\* C3 as stated: after the layout calculator, in the vertex and in the
\* geometry stage, each of the five offsets is absent (-1) or a slot index
\* >= 0, the ranges of the present ones are pairwise disjoint, and
\* varyings_base is the sum of the sizes of exactly the present ranges.
C3_AsStated ==
    LayoutDone =>
      LET R == FixedRanges
      IN  /\ \A i \in 1..5 : R[i][1] = -1 \/ R[i][1] >= 0
          /\ \A i \in 1..5 : \A j \in 1..5 :
               (i < j /\ R[i][1] # -1 /\ R[j][1] # -1) =>
                  \/ R[i][1] + R[i][2] <= R[j][1]
                  \/ R[j][1] + R[j][2] <= R[i][1]
          /\ st.varyings_vpm_offset = SumPresent(R, 5)

\* Width of the fixed-function region: position 4 (coordinate shader only),
\* viewport 2, depth and reciprocal-W 1 each (not a coordinate shader),
\* point size 1 (if enabled).
FixedWidth(coord, psiz) ==
    (IF coord THEN 4 ELSE 0) + 2 + (IF coord THEN 0 ELSE 2)
        + (IF psiz THEN 1 ELSE 0)

\* C4: vertex-stage layout.  Not the last geometry stage: the five offsets
\* are absent and varyings_base = 0.  Otherwise position (4 slots, is_coord
\* only), viewport (2), depth and reciprocal-W (1 each, not is_coord),
\* point size (1, per_vertex_point_size only) are allocated in that order
\* and varyings_base is the next free slot.  The published size is
\* max(1, varyings_base + |T|).
C4_VertexLayout ==
    (key.stage = "VERTEX" /\ pc # "layout") =>
      LET last == key.is_last_geometry_stage
          coord == key.is_coord
          psiz == key.per_vertex_point_size
          total == st.varyings_vpm_offset + Len(key.used_outputs)
      IN  /\ st.pos_vpm_offset = (IF last /\ coord THEN 0 ELSE -1)
          /\ st.vp_vpm_offset = (IF last THEN (IF coord THEN 4 ELSE 0) ELSE -1)
          /\ st.zs_vpm_offset = (IF last /\ ~coord THEN 2 ELSE -1)
          /\ st.rcp_wc_vpm_offset = (IF last /\ ~coord THEN 3 ELSE -1)
          /\ st.psiz_vpm_offset =
                (IF last /\ psiz THEN (IF coord THEN 6 ELSE 4) ELSE -1)
          /\ st.varyings_vpm_offset =
                (IF last THEN FixedWidth(coord, psiz) ELSE 0)
          /\ vpm_output_size = (IF total >= 1 THEN total ELSE 1)

\* The example of the claim: last geometry stage, not a coordinate shader, no
\* point size, two used outputs.
C4_Witness ==
    /\ key.stage = "VERTEX" /\ pc = "walk"
    /\ key.is_last_geometry_stage /\ ~key.is_coord
    /\ ~key.per_vertex_point_size /\ Len(key.used_outputs) = 2
    /\ st.pos_vpm_offset = -1 /\ st.vp_vpm_offset = 0
    /\ st.zs_vpm_offset = 2 /\ st.rcp_wc_vpm_offset = 3
    /\ st.varyings_vpm_offset = 4 /\ vpm_output_size = 6

\* C5: geometry-stage layout.  output_header_size = 1 + vertices_out,
\* vertex_data_size = varyings_base + |T| = width of the fixed-function
\* region + |T|, and the published size is
\* output_header_size + vertex_data_size * vertices_out.
C5_GeometryLayout ==
    (key.stage = "GEOMETRY" /\ pc # "layout") =>
      /\ st.output_header_size = 1 + key.vertices_out
      /\ st.output_vertex_data_size =
            st.varyings_vpm_offset + Len(key.used_outputs)
      /\ st.output_vertex_data_size =
            FixedWidth(key.is_coord, key.per_vertex_point_size)
                + Len(key.used_outputs)
      /\ vpm_output_size =
            st.output_header_size
                + st.output_vertex_data_size * key.vertices_out

\* Two vertices, point size enabled, five used outputs: 3 + 10 * 2.
C5_Witness ==
    /\ key.stage = "GEOMETRY" /\ pc = "walk"
    /\ key.vertices_out = 2 /\ key.per_vertex_point_size /\ ~key.is_coord
    /\ Len(key.used_outputs) = 5
    /\ st.output_vertex_data_size = 10 /\ vpm_output_size = 23

\* A header word with the New Primitive bit set, the vertex data length in
\* bits [15:8] and every other bit clear.
IsFreshHeader(h, vertex_data_size) ==
    /\ Bits(h, 0, 0) = 1
    /\ Bits(h, 7, 1) = 0
    /\ Bits(h, 15, 8) = vertex_data_size
    /\ Bits(h, 31, 16) = 0

\* C6: reset-header (in the prologue and in end-primitive) sets the header
\* value to a word with bit 0 = 1, bits [15:8] = vertex_data_size and all
\* other bits 0; one emit-vertex leaves bit 0 = 0 and bits [15:8] unchanged,
\* increases output_offset by exactly vertex_data_size and header_offset by
\* exactly 1.
C6_HeaderTransitions ==
    [][ /\ ((emit_gs_prolog \/ v3d_nir_lower_end_primitive) /\ pc' = "walk")
            => IsFreshHeader(gsv'.header, st.output_vertex_data_size)
        /\ v3d_nir_lower_emit_vertex
            => /\ Bits(gsv'.header, 0, 0) = 0
               /\ Bits(gsv'.header, 15, 8) = Bits(gsv.header, 15, 8)
               /\ gsv'.output_offset =
                     gsv.output_offset + st.output_vertex_data_size
               /\ gsv'.header_offset = gsv.header_offset + 1 ]_vars

\* The round trip of the claim: vertex_data_size = 5, one emit-vertex after
\* the reset of the prologue.
C6_Witness ==
    /\ key.stage = "GEOMETRY" /\ pc = "walk"
    /\ st.output_vertex_data_size = 5
    /\ n = 1 /\ ins.op = "emit_vertex"
    /\ gsv.header = W(0, 5 * 256)
    /\ gsv.output_offset = st.output_header_size + 5
    /\ gsv.header_offset = 2

\* C7: in the geometry stage the function-end step writes VPM address 0
\* exactly once, after every vertex write (no write of the walk goes to
\* address 0), with the word output_header_size | ((header_offset - 1) << 16);
\* bits [31:16] are the number of emit-vertex operations executed, which
\* end-primitive and store operations do not change.
C7_OutputHeader ==
    key.stage = "GEOMETRY" =>
      /\ pc \in {"walk", "done"} => gsv.header_offset - 1 = hist.emits
      /\ pc = "walk" => \A j \in 1..Len(out) : out[j].addr >= 1
      /\ pc = "done" =>
           /\ Len(out) = 1
           /\ out[1].addr = 0
           /\ out[1].val = ImmWord(W(hist.emits, st.output_header_size))

\* Two vertices emitted, the walk ending with an end-primitive.
C7_Witness ==
    /\ key.stage = "GEOMETRY" /\ pc = "done"
    /\ hist.emits = 2 /\ n = 3
    /\ Len(out) = 1 /\ out[1].addr = 0
    /\ out[1].val = ImmWord(W(2, 3))

\* The step just taken lowered a store to the array-layer output.
LayerStored ==
    /\ key.stage = "GEOMETRY" /\ pc = "walk"
    /\ ins.op = "store_output" /\ ins.loc = "LAYER"
    /\ cur.op = "removed"

\* C8 as stated: for every signed 32-bit layer value L stored to the
\* array-layer output and every framebuffer layer count N, bits [23:16] of the
\* header word stored back are 0 when L >= N and L otherwise, so that no
\* out-of-range layer index reaches the header.
C8_AsStated ==
    LayerStored =>
      LET L == Signed(ins.val)
          N == ins.base
      IN  Bits(gsv.header, 23, 16) = (IF L >= N THEN 0 ELSE L)

\* The fragment load just visited is recognized as the point coordinate.
IsPointCoordLoad ==
    /\ ins.loc # "NOVAR"
    /\ util_varying_is_point_coord(ins.loc, key.point_sprite_mask)

FragmentLoadVisited ==
    /\ key.stage = "FRAGMENT" /\ pc = "walk"
    /\ ins.op = "load_input"

\* What C9 gives for a point-coordinate load, by component.
PointCoordValue(comp, is_points, upper_left) ==
    CASE comp = 0 -> IF is_points THEN "dest" ELSE "0.0"
      [] comp = 1 -> IF is_points
                     THEN (IF upper_left THEN "1.0-dest" ELSE "dest")
                     ELSE (IF upper_left THEN "1.0-0.0" ELSE "0.0")
      [] comp = 2 -> "0.0"
      [] comp = 3 -> "1.0"

\* C9 as stated, for every target environment: a single-component load of
\* the point-coordinate input reads 0.0 in components 0 and 1 when is_points
\* is false and the loaded value when it is true, 0.0 in component 2, 1.0 in
\* component 3, and 1 - that in component 1 when upper_left is set; other
\* loads are unchanged.
C9_AsStated ==
    FragmentLoadVisited =>
      cur.res = (IF IsPointCoordLoad
                 THEN PointCoordValue(ins.comp, key.is_points,
                                      key.point_coord_upper_left)
                 ELSE "dest")

\* C9: outside the OpenGL environment a single-component load of the
\* point-coordinate input reads 0.0 in components 0 and 1 when is_points is
\* false and the loaded value when it is true, 0.0 in component 2, 1.0 in
\* component 3, and 1 - that in component 1 when upper_left is set; loads
\* that are not the point coordinate, and every load in the OpenGL
\* environment, are unchanged.
C9_PointCoord ==
    FragmentLoadVisited =>
      /\ cur = [ins EXCEPT !.res = cur.res]
      /\ cur.res = (IF key.environment # "OPENGL" /\ IsPointCoordLoad
                    THEN PointCoordValue(ins.comp, key.is_points,
                                         key.point_coord_upper_left)
                    ELSE "dest")

\* Component 1 of gl_PointCoord, not rendering points, upper-left origin:
\* forced to 0.0 and then flipped.
C9_Witness ==
    /\ FragmentLoadVisited
    /\ key.environment = "VULKAN"
    /\ ins.loc = "PNTC" /\ ins.comp = 1
    /\ ~key.is_points /\ key.point_coord_upper_left
    /\ cur.res = "1.0-0.0"

\* No VPM size and no layout state is published.
NothingPublished ==
    /\ vpm_output_size = 0
    /\ st = State0
    /\ gsv = GsVars0
    /\ out = << >>

\* C10 as stated: in the compute stage, for every instruction and every
\* target environment, the instruction after the pass is identical to the
\* one before it, and no VPM size or layout state is published.
C10_AsStated ==
    key.stage = "COMPUTE" =>
      /\ cur = ins
      /\ NothingPublished

\* C10: in the compute stage every instruction other than a load-uniform is
\* identical after the pass; a load-uniform is identical in the environment
\* with byte-granular offsets (Vulkan) and otherwise has its base multiplied
\* by 16 and its dynamic index shifted left by 4; no VPM size or layout state
\* is published.
C10_ComputePass ==
    key.stage = "COMPUTE" =>
      /\ IF ins.op = "load_uniform" /\ key.environment # "VULKAN"
         THEN cur = [ins EXCEPT !.base = 16 * ins.base,
                                !.val = ishl(ins.val, 4)]
         ELSE cur = ins
      /\ NothingPublished

\* A compute shader in the OpenGL environment whose load-uniform of base 4
\* was rescaled to base 64.
C10_Witness ==
    /\ key.stage = "COMPUTE" /\ key.environment = "OPENGL"
    /\ ins.op = "load_uniform" /\ ins.base = 4
    /\ cur.base = 64 /\ cur.val = ishl(ins.val, 4)
    /\ cur # ins
    /\ NothingPublished

\* The step just taken visited a load-uniform.
UniformVisited ==
    /\ pc = "walk"
    /\ ins.op = "load_uniform"

\* C11: a load-uniform with static base B and dynamic index I is rewritten,
\* in an environment without byte-granular offsets, to base B * 16 and
\* dynamic index I << 4 (32-bit), and is unchanged in the environment with
\* byte-granular offsets; nothing else of the load changes, and the visit of
\* the load rescales it once (not 16 * 16).  This holds in every stage.
C11_UniformRescale ==
    UniformVisited =>
      IF key.environment = "VULKAN"
      THEN cur = ins
      ELSE /\ cur.base = 16 * ins.base
           /\ cur.val = ishl(ins.val, 4)
           /\ cur = [ins EXCEPT !.base = cur.base, !.val = cur.val]
           /\ (ins.base # 0 => cur.base # 256 * ins.base)

\* The example of the claim in a vertex shader: base 4 becomes 64, and the
\* index 0x10000001 becomes 0x10 (the shift is a 32-bit shift).
C11_Witness ==
    /\ UniformVisited
    /\ key.stage = "VERTEX" /\ key.environment = "OPENGL"
    /\ ins.base = 4 /\ cur.base = 64
    /\ ins.val = WordOf(268435457) /\ cur.val = WordOf(16)

\* The step just taken visited a load-input of the vertex stage.
VertexLoadVisited ==
    /\ key.stage = "VERTEX" /\ pc = "walk"
    /\ ins.op = "load_input"

\* The exchange of components 0 and 2.
SwapRB(c) == CASE c = 0 -> 2 [] c = 2 -> 0 [] OTHER -> c

\* C12: in the vertex stage a single-component load-input at location L with
\* component c reads component 2 for c = 0 and 0 for c = 2, and c for c = 1
\* and c = 3, if the swizzle mask enables L; it reads c if the mask does not
\* enable L.  Nothing else of the load changes, and the remap applied twice
\* gives c back for every c in 0..3.
C12_AttributeSwizzle ==
    VertexLoadVisited =>
      /\ cur.comp = (IF ins.loc \in key.va_swap_rb_mask
                     THEN SwapRB(ins.comp) ELSE ins.comp)
      /\ cur = [ins EXCEPT !.comp = cur.comp]
      /\ \A c \in 0..3 :
           SwizzledComponent(key.va_swap_rb_mask, ins.loc,
               SwizzledComponent(key.va_swap_rb_mask, ins.loc, c)) = c

\* Component 0 of an attribute the mask enables is read from component 2.
C12_Witness ==
    /\ VertexLoadVisited
    /\ key.va_swap_rb_mask = {"ATTR0"}
    /\ ins.loc = "ATTR0" /\ ins.comp = 0 /\ cur.comp = 2

\* The step just taken lowered a store to the clip-space position.
PositionStored ==
    /\ StoreLowered /\ pc = "walk"
    /\ ins.loc = "POS"

\* Every component of the store is in its position slot.
PositionBuffered ==
    \A i \in 0..(ins.nc - 1) : st.pos[ins.comp + i + 1] = ChanId(ins.nc, i)

\* C13 as stated: a store to the clip-space position buffers each component
\* i in position slot (starting component + i) and emits no physical write
\* at the store site, for every used-outputs table T.
C13_AsStated ==
    PositionStored =>
      /\ PositionBuffered
      /\ out = << >>

\* C13 (amended): a store to the clip-space position buffers each component
\* i in position slot (starting component + i) and emits no write to a
\* fixed-function slot at the store site.  It emits one write into the
\* varying region for each covered component whose (position, component) is
\* in T, as any other store does, and none when T has no position entry.
C13_PositionStore ==
    PositionStored =>
      LET T == key.used_outputs
          Hit == { i \in CoveredComps(ins) : TableMatches(T, ins, i) # {} }
      IN  /\ PositionBuffered
          /\ \A j \in 1..Len(out) :
               /\ out[j].site = "varying"
               /\ out[j].rel >= st.varyings_vpm_offset
          /\ Len(out) = Cardinality(Hit)
          /\ \A i \in Hit : Cardinality(VaryingWritesOf(out, ins, i)) = 1

\* A four-component position store with the table <<POS.0, VAR1.1>>: all
\* four components are buffered and component 0 is also written to varying
\* slot 0.
C13_Witness ==
    /\ PositionStored
    /\ ins.comp = 0 /\ ins.nc = 4
    /\ key.used_outputs = << Slot("POS", 0), Slot("VAR1", 1) >>
    /\ st.pos = << ChanId(4, 0), ChanId(4, 1), ChanId(4, 2), ChanId(4, 3) >>
    /\ Len(out) = 1
    /\ out[1].rel = st.varyings_vpm_offset
    /\ out[1].val = Ssa(ChanId(4, 0))

\* The step just taken lowered a store to the point size.
PointSizeStored ==
    /\ StoreLowered /\ pc = "walk"
    /\ ins.loc = "PSIZ"

\* C14 as stated: in the vertex and in the geometry stage a point-size slot
\* exists only if per-vertex point size is enabled (and, in the vertex
\* stage, fixed-function outputs are required); a store to the point size
\* emits exactly one physical write, to the point-size slot, when the slot
\* exists and no write to any fixed-function slot when it does not.
C14_AsStated ==
    PointSizeStored =>
      LET slot_exists ==
              /\ key.per_vertex_point_size
              /\ key.stage = "VERTEX" => key.is_last_geometry_stage
          ff == { j \in 1..Len(out) : out[j].rel < st.varyings_vpm_offset }
      IN  IF slot_exists
          THEN /\ Len(out) = 1
               /\ out[1].rel = st.psiz_vpm_offset
               /\ out[1].addr = VertexBase + out[1].rel
               /\ out[1].val = Ssa(SrcId(ins.nc))
          ELSE ff = {}

\* The pass has gone past the geometry prologue.
PastPrologue == pc \notin {"layout", "prolog"}

\* The header variable holds what the reset of the prologue stored.
AfterPrologueReset == pc = "walk" /\ n = 0

\* C15 as stated: in the geometry stage a vertex_data_size >= 256 makes the
\* pass abort at the reset-header of the prologue, so that no header word
\* with bits above [15:8] polluted by vertex_data_size is produced; for
\* vertex_data_size <= 255 no abort occurs.
C15_AsStated ==
    (key.stage = "GEOMETRY" /\ PastPrologue) =>
      /\ st.output_vertex_data_size >= 256 => pc = "aborted"
      /\ AfterPrologueReset => Bits(gsv.header, 31, 16) = 0
      /\ st.output_vertex_data_size <= 255 => pc # "aborted"

\* The failing state of C15: in a build that defines NDEBUG the prologue of
\* a geometry shader with vertex_data_size = 256 has not aborted the pass,
\* and the header word it stored holds vertex_data_size >> 8 in bits
\* [31:16], the vertex count field, and 0 in the length field [15:8].
C15_Witness ==
    /\ key.stage = "GEOMETRY"
    /\ st.output_vertex_data_size = 256
    /\ build = "ndebug"
    /\ AfterPrologueReset
    /\ Bits(gsv.header, 31, 16) = 1
    /\ Bits(gsv.header, 15, 8) = 0

\* The step just taken lowered an emit-vertex.
VertexEmitted ==
    /\ key.stage = "GEOMETRY" /\ pc = "walk"
    /\ ins.op = "emit_vertex"

\* C16: in a geometry-stage shader, after the prologue and k emit-vertex
\* operations, output_offset = output_header_size + k * vertex_data_size and
\* header_offset = 1 + k.  The k-th emit-vertex writes the header word of its
\* vertex at VPM address k and every other word at output_header_size +
\* (k - 1) * vertex_data_size + slot; a store lowered after k emit-vertex
\* operations writes the data of vertex k + 1 at output_header_size +
\* k * vertex_data_size + slot.
C16_VertexAddresses ==
    (key.stage = "GEOMETRY" /\ pc \in {"walk", "done"}) =>
      LET k == hist.emits
          size == st.output_vertex_data_size
          first == st.output_header_size
      IN  /\ gsv.output_offset = first + k * size
          /\ gsv.header_offset = 1 + k
          /\ VertexEmitted =>
               /\ Len(out) >= 1
               /\ out[Len(out)].site = "vertex_header"
               /\ out[Len(out)].addr = k
               /\ \A j \in 1..(Len(out) - 1) :
                    /\ out[j].site # "vertex_header"
                    /\ out[j].addr = first + (k - 1) * size + out[j].rel
          /\ (StoreLowered /\ pc = "walk") =>
               \A j \in 1..Len(out) :
                  out[j].addr = first + k * size + out[j].rel

\* The second vertex of a shader with vertices_out = 2 and no point size:
\* header at address 2, viewport X at 3 + 4 + 0.
C16_Witness ==
    /\ VertexEmitted
    /\ hist.emits = 2
    /\ key.vertices_out = 2 /\ st.output_vertex_data_size = 4
    /\ out[Len(out)].addr = 2
    /\ out[1].site = "vp" /\ out[1].addr = 7
    /\ gsv.output_offset = 11 /\ gsv.header_offset = 3

\* The word an emit-vertex wrote as the header of its vertex.
EmittedHeader == out[Len(out)].val

\* C17: in a geometry-stage shader the header word written to the VPM for
\* an emitted vertex has the new-primitive bit (bit 0) set if and only if no
\* emit-vertex was executed between the prologue or the most recent
\* end-primitive and this emit-vertex.  The state an end-primitive leaves
\* depends on nothing that came before it in the primitive, so consecutive
\* end-primitive operations have the effect of one.
C17_NewPrimitiveBit ==
    /\ VertexEmitted =>
         /\ out[Len(out)].site = "vertex_header"
         /\ EmittedHeader.k = "word"
         /\ (EmittedHeader.b % 2 = 1) <=> (hist.run = 1)
         /\ Bits(gsv.header, 0, 0) = 0
    /\ (key.stage = "GEOMETRY" /\ pc = "walk" /\ ins.op = "end_primitive") =>
         /\ hist.run = 0
         /\ gsv.header = reset_gs_header(st.output_vertex_data_size)
         /\ Bits(gsv.header, 0, 0) = 1

\* The third instruction is the second emit-vertex in a row: its vertex goes
\* on with the primitive of the one before (bit 0 clear).
C17_Witness ==
    /\ VertexEmitted
    /\ n = 3 /\ hist.run = 2
    /\ EmittedHeader.b % 2 = 0

\* C18: end-primitive changes only header_value: output_offset,
\* header_offset, the stored bit-vector, the buffered position components
\* and every other field of the pass state are unchanged, and no physical
\* VPM write is emitted.
C18_EndPrimitiveFrame ==
    [][ v3d_nir_lower_end_primitive =>
          /\ gsv'.output_offset = gsv.output_offset
          /\ gsv'.header_offset = gsv.header_offset
          /\ gsv'.created = gsv.created
          /\ st' = st
          /\ vpm_output_size' = vpm_output_size
          /\ out' = << >>
          /\ cur' = Removed
      ]_vars

\* An end-primitive after an emit-vertex and a varying store: the header is
\* fresh again, the offsets stand at the second vertex, the stored bits stay.
C18_Witness ==
    /\ key.stage = "GEOMETRY" /\ pc = "walk"
    /\ ins.op = "end_primitive" /\ n = 3
    /\ hist.emits = 1 /\ gsv.header_offset = 2
    /\ st.varyings_stored # {}
    /\ Bits(gsv.header, 0, 0) = 1
    /\ out = << >>

\* The sites of the fixed-function writes.
FFSites == {"pos", "vp", "zs", "rcp_wc"}

\* Positions in the writes of the last step of those of a site.
SiteWrites(site) == { j \in 1..Len(out) : out[j].site = site }

\* The base address of the vertex the emitter just ran for.
EmittedVertexBase ==
    IF key.stage = "GEOMETRY"
    THEN gsv.output_offset - st.output_vertex_data_size
    ELSE 0

\* Exactly one write of the site, at the vertex's slot rel, of value val.
OneWriteAt(site, rel, val) ==
    Cardinality({ j \in SiteWrites(site) :
                    /\ out[j].rel = rel
                    /\ out[j].addr = EmittedVertexBase + rel
                    /\ out[j].val = val }) = 1

\* C19: the Fixed-Function Output Emitter runs once per vertex: its writes
\* appear after the last instruction of a vertex-stage function and in each
\* emit-vertex of a geometry-stage function, and nowhere else.  Each run
\* issues 4 writes to the position slots if the position offset is present,
\* 2 to the viewport slots, 1 to the depth slot and 1 to the reciprocal-W
\* slot if those are present, and none for an absent offset, each at the
\* vertex's base address plus the slot offset, computed from the buffered
\* position components, a component never written being a placeholder.
C19_FixedFunctionWrites ==
    /\ (\E j \in 1..Len(out) : out[j].site \in FFSites) => EmitterRan
    /\ EmitterRan =>
         LET pos == st.pos
             present(off) == off # -1
         IN  /\ \A c \in 1..4 : pos[c] # NullDef
             /\ Cardinality(SiteWrites("pos"))
                   = (IF present(st.pos_vpm_offset) THEN 4 ELSE 0)
             /\ Cardinality(SiteWrites("vp"))
                   = (IF present(st.vp_vpm_offset) THEN 2 ELSE 0)
             /\ Cardinality(SiteWrites("zs"))
                   = (IF present(st.zs_vpm_offset) THEN 1 ELSE 0)
             /\ Cardinality(SiteWrites("rcp_wc"))
                   = (IF present(st.rcp_wc_vpm_offset) THEN 1 ELSE 0)
             /\ present(st.pos_vpm_offset) =>
                  \A i \in 0..3 :
                     OneWriteAt("pos", st.pos_vpm_offset + i,
                                PosVal(pos[i + 1]))
             /\ present(st.vp_vpm_offset) =>
                  /\ OneWriteAt("vp", st.vp_vpm_offset,
                                Val("vp_x", pos[1], pos[4]))
                  /\ OneWriteAt("vp", st.vp_vpm_offset + 1,
                                Val("vp_y", pos[2], pos[4]))
             /\ present(st.zs_vpm_offset) =>
                  OneWriteAt("zs", st.zs_vpm_offset,
                             Val("zs", pos[3], pos[4]))
             /\ present(st.rcp_wc_vpm_offset) =>
                  OneWriteAt("rcp_wc", st.rcp_wc_vpm_offset,
                             Val("frcp", pos[4], 0))

\* A coordinate shader of the geometry stage emits its second vertex after
\* a store of position components 2 and 3 only: four position writes, the
\* first two of placeholders, and two viewport writes.
C19_Witness ==
    /\ VertexEmitted
    /\ key.is_coord /\ hist.emits = 2
    /\ st.pos = << UndefDef, UndefDef, ChanId(2, 0), ChanId(2, 1) >>
    /\ Cardinality(SiteWrites("pos")) = 4
    /\ Cardinality(SiteWrites("vp")) = 2
    /\ SiteWrites("zs") = {}
    /\ out[1].val = Val("undef", 0, 0)
    /\ out[1].addr = EmittedVertexBase + st.pos_vpm_offset

\* C20: for a store-output whose offset operand is a compile-time constant k
\* each covered component found in T at index slot is written at VPM address
\* varyings_base + slot + 4 * k (plus the run-time offset of the current
\* vertex in the geometry stage), and the stored bit set is the one of index
\* slot + 4 * k; when the operand is not a compile-time constant, whatever
\* its run-time value, the address is varyings_base + slot and the bit is
\* the one of slot.  The stored bits are at every point the slots the
\* stores of the walk have written.
C20_ConstantOffset ==
    /\ key.stage \in {"VERTEX", "GEOMETRY"} =>
         st.varyings_stored = hist.walk_stores
    /\ (StoreLowered /\ pc = "walk") =>
         LET T == key.used_outputs
             adjust == IF ins.offc THEN 4 * ins.offv ELSE 0
             vertex == IF key.stage = "GEOMETRY"
                       THEN st.output_header_size
                            + hist.emits * st.output_vertex_data_size
                       ELSE 0
         IN  \A i \in CoveredComps(ins) :
               TableMatches(T, ins, i) # {} =>
                 LET slot == MinOf(TableMatches(T, ins, i)) - 1
                 IN  /\ (slot + adjust) \in st.varyings_stored
                     /\ \E j \in VaryingWritesOf(out, ins, i) :
                          /\ out[j].rel
                                = st.varyings_vpm_offset + slot + adjust
                          /\ out[j].addr = vertex + out[j].rel

\* A geometry shader stores VAR0.x with the constant offset 1 after one
\* emit-vertex, with a table that has VAR0.x at index 1: slot 1 + 4.
C20_Witness ==
    /\ StoreLowered /\ pc = "walk"
    /\ key.stage = "GEOMETRY" /\ hist.emits = 1
    /\ ins.loc = "VAR0" /\ ins.nc = 1 /\ ins.offc /\ ins.offv = 1
    /\ key.used_outputs
          = << Slot("VAR0", 1), Slot("VAR0", 0), Slot("VAR0", 1) >>
    /\ 5 \in st.varyings_stored
    /\ Len(out) = 1
    /\ out[1].rel = st.varyings_vpm_offset + 5
    /\ out[1].addr = gsv.output_offset + out[1].rel

\* The locations and components a lookup is asked about.
LookupLocations == {"POS", "PSIZ", "VAR0", "VAR1", "LAYER"}

\* Positions (from 1) of the pair (location, component) in table T.
PairMatches(T, location, component) ==
    { j \in 1..Len(T) : T[j].slot = location /\ T[j].component = component }

\* C21: the varying lookup of (location, component) returns the least index
\* i with T[i] = (location, component), and -1 when no entry matches; when a
\* pair occurs more than once in T, every write of a store to it goes to its
\* first index (plus the same store-wide adjustment) and none to a later one.
C21_FirstIndex ==
    LET T == key.used_outputs
    IN  /\ \A l \in LookupLocations, c \in 0..3 :
             v3d_varying_slot_vpm_offset(T, l, c)
                = IF PairMatches(T, l, c) = {}
                  THEN -1
                  ELSE MinOf(PairMatches(T, l, c)) - 1
        /\ StoreLowered =>
             LET adjust == IF ins.offc THEN 4 * ins.offv ELSE 0
             IN  \A i \in CoveredComps(ins) :
                   \A j \in VaryingWritesOf(out, ins, i) :
                     /\ PairMatches(T, ins.loc, ins.comp + i) # {}
                     /\ out[j].rel - st.varyings_vpm_offset - adjust
                           = MinOf(PairMatches(T, ins.loc, ins.comp + i)) - 1

\* A store of VAR0.y under a table that lists VAR0.y at indices 0 and 2:
\* the one write goes to index 0.
C21_Witness ==
    /\ StoreLowered
    /\ key.used_outputs
          = << Slot("VAR0", 1), Slot("VAR0", 0), Slot("VAR0", 1) >>
    /\ ins.loc = "VAR0" /\ ~ins.offc
    /\ \E i \in CoveredComps(ins) :
         /\ Cardinality(PairMatches(key.used_outputs, "VAR0", ins.comp + i))
               = 2
         /\ \E j \in VaryingWritesOf(out, ins, i) :
              out[j].rel = st.varyings_vpm_offset
    /\ \A j \in 1..Len(out) : out[j].rel # st.varyings_vpm_offset + 2

\* What one nir_store_var of a constant inserts, in order.
StoreVarOps == << "load_const", "deref_var", "store_deref" >>

\* What the three nir_store_var of the geometry prologue insert.
PrologueOps == StoreVarOps \o StoreVarOps \o StoreVarOps

\* The last step dispatched an instruction the pass inserted.
InsertedDispatched ==
    pc = "walk" /\ hist.seen # << >> /\ hist.seen[Len(hist.seen)] = 0

\* The last step dispatched an instruction of the body before the pass.
OriginalDispatched ==
    pc = "walk" /\ hist.seen # << >> /\ hist.seen[Len(hist.seen)] > 0

\* The prologue instructions in the list the walk goes through.
PrologueLen ==
    IF key.stage = "GEOMETRY" /\ pc \in {"walk", "done"}
    THEN Len(PrologueOps) ELSE 0

\* C22 as stated: the walk never dispatches an instruction the pass itself
\* inserted, and after the pass on a vertex- or geometry-stage function no
\* original store-output, emit-vertex or end-primitive remains.
C22_AsStated ==
    /\ hist.inserted_seen = 0
    /\ key.stage \in {"VERTEX", "GEOMETRY"} => hist.left = 0

\* C22 (amended): the walk dispatches every instruction that was present
\* before the pass once, in program order, and never an instruction inserted
\* during the walk or after it: what lies ahead of the walk is at any time
\* the rest of the original body, whatever the handlers removed and
\* inserted.  In the geometry stage the walk first dispatches the
\* instructions the prologue inserted at the head of the first block before
\* the walk began (a constant, a variable deref and a variable store for
\* each of the three local variables), each once and each left as it is
\* with nothing inserted; the other stages dispatch no inserted
\* instruction.  In the vertex and geometry stages every dispatched
\* store-output, emit-vertex and end-primitive is removed, so none is left
\* in the function.
C22_Walk ==
    LET body == key.shader.body
        seen == hist.inserted_seen
    IN  /\ seen <= PrologueLen
        /\ hist.seen = [i \in 1..(seen + n) |->
                           IF i <= seen THEN 0 ELSE i - seen]
        /\ ahead = Inserted(SubSeq(PrologueOps, seen + 1, PrologueLen))
                   \o SubSeq(Listed(body), n + 1, Len(body))
        /\ pc = "done" => n = Len(body) /\ seen = PrologueLen
        /\ OriginalDispatched => ins = body[n]
        /\ InsertedDispatched =>
             /\ n = 0
             /\ ins.op = PrologueOps[seen]
             /\ cur = ins /\ out = << >>
        /\ key.stage \in {"VERTEX", "GEOMETRY"} =>
             /\ hist.left = 0
             /\ (OriginalDispatched /\ ins.op \in LogicalOutputOps) =>
                    cur.op = "removed"
        /\ key.stage \in {"FRAGMENT", "COMPUTE"} =>
             (ins.op \in LogicalOutputOps => cur = ins)

\* A fragment shader whose walk went past a point-coordinate load, which
\* put a constant and a subtraction after itself, and then dispatched the
\* original instruction that followed the load.
C22_Witness ==
    /\ key.stage = "FRAGMENT" /\ pc = "done"
    /\ key.shader.body = << LoadInput("PNTC", 1), Alu >>
    /\ hist.seen = << 1, 2 >>

\* A geometry shader whose walk went through the nine instructions of the
\* prologue and then removed the three original output instructions of its
\* body, the first a store that inserted a write.
C22_WitnessGeometry ==
    /\ key.stage = "GEOMETRY" /\ pc = "done"
    /\ key.shader.body
         = << Store("VAR1", 1, 1, 1, TRUE, 0), EmitVertex, EndPrimitive >>
    /\ hist.seen = << 0, 0, 0, 0, 0, 0, 0, 0, 0, 1, 2, 3 >>
    /\ hist.left = 0

\* C23 as stated: a store to the array-layer output changes only bits
\* [23:16] of the header; for every signed 32-bit layer value and every
\* framebuffer layer count, bit 0, bits [15:8] and bits [31:24] of the header
\* are the same after the store as before it.
C23_AsStated ==
    [][ (n' = n + 1 /\ LayerStored') =>
          /\ Bits(gsv'.header, 0, 0) = Bits(gsv.header, 0, 0)
          /\ Bits(gsv'.header, 15, 8) = Bits(gsv.header, 15, 8)
          /\ Bits(gsv'.header, 31, 24) = Bits(gsv.header, 31, 24)
      ]_vars

\* The last step inserted physical writes: a lowered store, an emit-vertex
\* or the code after the last block.
WritesIssued == pc \in {"walk", "done"} /\ out # << >>

\* The vertex (from 1) the writes of the last step belong to in the geometry
\* stage: an emit-vertex writes the vertex it emits, a store the next one.
WrittenVertex == IF ins.op = "emit_vertex" THEN hist.emits ELSE hist.emits + 1

\* The store just lowered has a constant offset operand other than zero.
OffsetStore == ins.op = "store_output" /\ ins.offc /\ ins.offv # 0

InRange(a, lo, hi) == lo <= a /\ a < hi

\* C24 as stated: every physical VPM write targets an address in
\* [0, total VPM size); in the geometry stage, while at most vertices_out
\* emit-vertex operations have executed and store offsets are zero, header
\* writes fall in [1, output_header_size) and the data writes of the k-th
\* vertex in [output_header_size + (k-1) * vertex_data_size,
\* output_header_size + k * vertex_data_size).
C24_AsStated ==
    WritesIssued =>
      /\ \A j \in 1..Len(out) : InRange(out[j].addr, 0, vpm_output_size)
      /\ (key.stage = "GEOMETRY" /\ pc = "walk"
          /\ hist.emits <= key.vertices_out /\ ~OffsetStore) =>
           LET k == WrittenVertex
               base == st.output_header_size
                         + (k - 1) * st.output_vertex_data_size
           IN  \A j \in 1..Len(out) :
                 IF out[j].site = "vertex_header"
                 THEN InRange(out[j].addr, 1, st.output_header_size)
                 ELSE InRange(out[j].addr, base,
                              base + st.output_vertex_data_size)

\* After exactly vertices_out emit-vertex operations a geometry shader
\* stores a varying with a zero offset: the write lands at or past the total
\* VPM size.
C24_Witness ==
    /\ StoreLowered /\ pc = "walk"
    /\ key.stage = "GEOMETRY"
    /\ hist.emits = key.vertices_out
    /\ ins.offc /\ ins.offv = 0
    /\ \E j \in 1..Len(out) :
         /\ out[j].site = "varying"
         /\ out[j].addr >= vpm_output_size

\* Bits [23:16] of a 32-bit word.
LayerBits(w) == Bits(w, 23, 16)

\* C25: in a geometry-stage shader the value a layer store places in header
\* bits [23:16] is in the header word of every vertex emitted afterwards,
\* until the next layer store replaces it or the next end-primitive resets
\* it to 0: a layer store places 0 when the layer is at least the
\* framebuffer layer count and the low 8 bits of the layer otherwise, an
\* end-primitive leaves 0, an emit-vertex writes the header word with the
\* bits it found and leaves them as they were, and no other step of the
\* walk changes them.
C25_LayerCarried ==
    [][ (key.stage = "GEOMETRY" /\ pc = "walk") =>
          LET original == n' = n + 1
              layer_store == original /\ LayerStored'
              end_primitive == original /\ ins'.op = "end_primitive"
              emit_vertex == original /\ ins'.op = "emit_vertex"
          IN  /\ layer_store =>
                   LayerBits(gsv'.header)
                      = (IF Signed(ins'.val) >= ins'.base
                         THEN 0 ELSE ins'.val.lo % 256)
              /\ (end_primitive /\ pc' = "walk") =>
                   LayerBits(gsv'.header) = 0
              /\ emit_vertex =>
                   /\ out'[Len(out')].site = "vertex_header"
                   /\ out'[Len(out')].val.k = "word"
                   /\ out'[Len(out')].val.a % 256 = LayerBits(gsv.header)
              /\ ~(layer_store \/ end_primitive) =>
                   LayerBits(gsv'.header) = LayerBits(gsv.header)
      ]_vars

\* A layer store of 1 (with 2 framebuffer layers) followed by two
\* emit-vertex operations: the header word of the second vertex still has 1
\* in bits [23:16], as has the header kept for the next one.
C25_Witness ==
    /\ VertexEmitted
    /\ n = 3 /\ hist.emits = 2
    /\ EmittedHeader.k = "word"
    /\ EmittedHeader.a % 256 = 1
    /\ LayerBits(gsv.header) = 1

====
